---- MODULE Spec2Model ----
(***************************************************************************)
(* A model of secateur's task pipeline (src/secateur/tasks.py) over its    *)
(* relational store (src/secateur/models.py): the create/destroy           *)
(* relationship tasks, the paged listing walk with its page and finish     *)
(* handlers, the rate-limit marker in the cache and the retry timeout.     *)
(*                                                                         *)
(* Time is in seconds.  A task attempt is split where another worker can   *)
(* interleave: before the remote call, between the read and the write of   *)
(* Relationship.add_relationships, and before the finish handlers.         *)
(***************************************************************************)
EXTENDS Integers, Sequences, FiniteSets, Bags, TLC

VARIABLES
    clock,      \* the wall clock, timezone.now()
    users,      \* User rows: pk -> [is_twitter_api_enabled, account]
    accounts,   \* Account rows: user_id -> screen_name (NoName when NULL)
    rels,       \* Relationship rows
    log,        \* LogMessage rows (a bag)
    cache,      \* django cache: key -> [value, expires]
    tasks,      \* create_relationship / destroy_relationship invocations
    walks,      \* twitter_paged_call_iterator invocations
    twitter,    \* the remote side: the ids of the twitter users there are
    applied     \* the application of a function on its own: arguments and result

vars == <<clock, users, accounts, rels, log, cache, tasks, walks, twitter, applied>>

\* no function has been applied
NoCall == [f |-> "none"]

-----------------------------------------------------------------------------
(* Program constants *)

FOLLOWS == 1
BLOCKS == 2
MUTES == 3
BLOCK == 2
MUTE == 3

\* max_retries of create_relationship and destroy_relationship
MaxRetries == 15
\* celery's default max_retries, which twitter_paged_call_iterator keeps
WalkMaxRetries == 3
\* 23 * 4: the cap on backoff slots
SlotCap == 92
\* 15 * 60: the width of a slot, the marker's offset and its cache timeout
Window == 900
\* the slack create_relationship adds to the marker's remaining time
CreateSlack == 5
\* 60 * 15: the largest countdown unblock_expired draws
SweepJitter == 900
\* the max_retries option unblock_expired gives to apply_async
SweepMaxRetries == 15
\* the max_retries option _block_multiple gives to apply_async
BlockMultipleMaxRetries == 20

\* Python's None for ids and datetimes (ids and times are >= 1)
None == 0
\* None for a screen_name
NoName == "None"

-----------------------------------------------------------------------------
(* Bounds of the model *)

\* the first clock value
StartTime == 1000
\* the clock advances MaxTicks times by TickSeconds
TickSeconds == 450
MaxTicks == 1
\* the number of invocations (mutation tasks and listing walks) that are
\* queued, and the number of walks among them
MaxJobs == 2
MaxWalks == 1
\* the number of unfinished invocations that a run of unblock_expired may
\* bring the queue to
MaxQueued == 2
\* the largest base and the largest number of retries _twitter_retry_timeout
\* is applied to
MaxBase == 905
MaxRetryCount == 16
\* the parts a token is counted in, so that a bucket can hold a fraction of a
\* token (the fields are floats)
TokenParts == 2
\* the largest rate, in parts per second, the largest capacity, in tokens, and
\* the largest age of a bucket, in seconds, at StartTime
MaxRate == 1
MaxTokens == 3
MaxAge == 2
\* the largest max_pages a walk is started with (the callers pass the
\* default, 100; the task takes any)
MaxPagesArg == 1
\* the largest number of pages of a remote listing
MaxListPages == 2
\* the `until` values that callers pass
UntilEarly == 1200
UntilLate == 2400

\* the principal's account is 1; the other twitter users are 2, 3, ...
Subject == 1
\* the screen names the remote API knows the users by
Handle == <<"sam", "ann", "bob", "cat", "dan">>
Untils == {None, UntilEarly, UntilLate}

-----------------------------------------------------------------------------
(* Small helpers *)

Min(a, b) == IF a < b THEN a ELSE b

RECURSIVE Pow2(_)
Pow2(n) == IF n = 0 THEN 1 ELSE 2 * Pow2(n - 1)

\* the twitter user a remote call addresses: python-twitter sends user_id
\* when it is given and the screen name otherwise
RemoteUser(user_id, screen_name) ==
    IF user_id # None THEN user_id
    ELSE CHOOSE i \in 1..Len(Handle) : Handle[i] = screen_name

-----------------------------------------------------------------------------
(* The retry timeout *)

\* the draws of random.randint the model follows: the first and the last
\* slot of 0..max_slot, the first and the last second of the slot's window
drawn_slots(max_slot) == {0, max_slot}

drawn_seconds(slot) == {slot * Window, (slot + 1) * Window}

\* faulty variant: the base is left out of the timeout
retry_timeout_without_base(base, retries) ==
    LET max_slot == Min(Pow2(retries) - 1, SlotCap)
    IN  UNION {drawn_seconds(slot) : slot \in drawn_slots(max_slot)}

\* _twitter_retry_timeout: the timeouts it can return
twitter_retry_timeout(base, retries) ==
    LET max_slot == Min(Pow2(retries) - 1, SlotCap)
    IN  {base + seconds :
            seconds \in UNION {drawn_seconds(slot) : slot \in drawn_slots(max_slot)}}

-----------------------------------------------------------------------------
(* The store: Account and Relationship *)

Row(type, subject, object, id, updated, until) ==
    [type |-> type, subject |-> subject, object |-> object, id |-> id,
     updated |-> updated, until |-> until]

\* the rows of one (type, subject, object) triple
triple_rows(R, type, subject, object) ==
    {r \in R : r.type = type /\ r.subject = subject /\ r.object = object}

\* Account.friends
friends(self) == {r.object : r \in {x \in rels : x.type = FOLLOWS /\ x.subject = self}}

\* Account.follows raises AssertionError on these arguments
follows_asserts(user_id, screen_name) ==
    \/ (user_id = None /\ screen_name = NoName)
    \/ (user_id # None /\ screen_name # NoName)

\* Account.follows
follows(self, user_id, screen_name) ==
    IF user_id # None
    THEN user_id \in friends(self)
    ELSE \E a \in friends(self) : accounts[a] = screen_name

\* faulty variant: the queryset is filtered by user_id even when the screen
\* name is what the caller gave
existing_qs_by_id(R, subject, type, user_id, screen_name) ==
    {r \in R : r.subject = subject /\ r.type = type /\ r.object = user_id}

\* the queryset existing_rel_qs / existing_qs of the two tasks, evaluated on R
existing_qs(R, subject, type, user_id, screen_name) ==
    {r \in R :
        /\ r.subject = subject
        /\ r.type = type
        /\ IF screen_name # NoName
           THEN accounts[r.object] = screen_name
           ELSE r.object = user_id}

\* Account.get_accounts on ids: rows for the ids not yet there, without a name
get_accounts_ids(A, ids) ==
    [a \in DOMAIN A \cup ids |-> IF a \in DOMAIN A THEN A[a] ELSE NoName]

\* Account.get_accounts on twitter.User objects: Profile.update stores the
\* screen name twitter reports
get_accounts_users(A, ids) ==
    [a \in DOMAIN A \cup ids |-> IF a \in ids THEN Handle[a] ELSE A[a]]

\* faulty variant: the deletion cascades over the object foreign key only
account_delete_rels_as_object(R, a) == {r \in R : r.object # a}

\* faulty variant: nothing is deleted
delete_nothing(R, rows) == R

\* QuerySet.delete
queryset_delete(R, rows) == R \ rows

\* Account.delete: the row goes, with on_delete=CASCADE on both foreign keys
\* of Relationship
account_delete_rels(R, a) == {r \in R : r.subject # a /\ r.object # a}

account_delete(A, a) == [x \in DOMAIN A \ {a} |-> A[x]]

\* add_relationships, the read: existing_set and to_create
existing_set(type, subjects, objects) ==
    {<<r.subject, r.object>> :
        r \in {x \in rels : x.type = type /\ x.subject \in subjects /\ x.object \in objects}}

to_create(type, subjects, objects) ==
    (subjects \X objects) \ existing_set(type, subjects, objects)

\* faulty variant: the table has no uniqueness constraint
no_unique_together(R, type, pairs) == FALSE

\* unique_together = (("type", "subject", "object"),): bulk_create of these
\* pairs raises IntegrityError when a row of one of the triples is there
unique_together_violated(R, type, pairs) ==
    \E p \in pairs : triple_rows(R, type, p[1], p[2]) # {}

\* the id of a new row: rows are told apart by their triple and a number
\* that is unused among the rows of the triple
new_id(R, type, subject, object) ==
    CHOOSE n \in 1..(Cardinality(triple_rows(R, type, subject, object)) + 1) :
        \A r \in triple_rows(R, type, subject, object) : r.id # n

\* faulty variant: the rows that exist take the `until` of the call even when
\* none is given
add_relationships_clearing(R, type, subjects, objects, pairs, updated, until) ==
    LET created == {Row(type, p[1], p[2], new_id(R, type, p[1], p[2]), updated, until) :
                        p \in pairs}
    IN  {IF r.type = type /\ r.subject \in subjects /\ r.object \in objects
         THEN [r EXCEPT !.updated = updated, !.until = until]
         ELSE r : r \in R \cup created}

\* add_relationships, the write: bulk_create(to_create), then existing.update
\* (the queryset is evaluated again, so it covers the new rows too)
add_relationships_write(R, type, subjects, objects, pairs, updated, until) ==
    LET created == {Row(type, p[1], p[2], new_id(R, type, p[1], p[2]), updated, until) :
                        p \in pairs}
    IN  {IF r.type = type /\ r.subject \in subjects /\ r.object \in objects
         THEN [r EXCEPT !.updated = updated,
                        !.until = IF until # None THEN until ELSE @]
         ELSE r : r \in R \cup created}

\* faulty variant: no row is removed
remove_nothing(R, type, subject, object, updated) == R

\* remove_relationships(type=..., subject=... or object=..., updated__lt=...);
\* None stands for a filter that is not given
remove_relationships(R, type, subject, object, updated) ==
    {r \in R : ~(/\ r.type = type
                 /\ subject # None => r.subject = subject
                 /\ object # None => r.object = object
                 /\ r.updated < updated)}

\* @transaction.atomic: what an exception leaves of the writes of the task
transaction_atomic(committed, written, raised) ==
    IF raised THEN committed ELSE written

-----------------------------------------------------------------------------
(* The cache *)

rate_limit_key(user, op) == <<user, op>>

create_op(type) == IF type = BLOCK THEN "create_block" ELSE "create_mute"

destroy_op(type) == IF type = BLOCK THEN "destroy_block" ELSE "destroy_mute"

\* faulty variant: the cache never holds a value
cache_miss(key) == None

\* cache.get: the value while its timeout has not run out
cache_get(key) ==
    IF key \in DOMAIN cache /\ clock < cache[key].expires
    THEN cache[key].value
    ELSE None

\* cache.set(key, value, timeout)
cache_set(key, value, timeout) ==
    (key :> [value |-> value, expires |-> clock + timeout]) @@ cache

\* the cache drops an entry when its timeout runs out
cache_expire(time) ==
    LET kept == {key \in DOMAIN cache : time < cache[key].expires}
    IN  [key \in kept |-> cache[key]]

-----------------------------------------------------------------------------
(* Tasks: create_relationship and destroy_relationship *)

\* an invocation as apply_async queues it; max_retries is the option of that
\* name given to apply_async, if any: the message carries it, and retry() of
\* the worker does not read it
new_task(kind, user, type, user_id, screen_name, until) ==
    [kind |-> kind, user |-> user, type |-> type, user_id |-> user_id,
     screen_name |-> screen_name, until |-> until,
     retries |-> 0, max_retries |-> None, eta |-> clock, st |-> "queued",
     why |-> "", now |-> None, calls |-> 0, reply |-> "", account |-> None,
     pairs |-> {}]

\* the invocation ends: it returns, or an exception leaves it
returned(task, why) ==
    [task EXCEPT !.st = "returned", !.why = why, !.eta = None, !.pairs = {}, !.now = None]

\* faulty variant: the exception is swallowed and the invocation returns
swallowed(task, why) == returned(task, why)

raised(task, why) ==
    [task EXCEPT !.st = "raised", !.why = why, !.eta = None, !.pairs = {}, !.now = None]

\* faulty variant: the max_retries option of apply_async replaces the limit of
\* the task
retry_with_option(task, max_retries, countdown_set) ==
    IF task.retries >= (IF task.max_retries = None THEN max_retries ELSE task.max_retries)
    THEN {raised(task, "MaxRetriesExceededError")}
    ELSE {[task EXCEPT !.st = "queued", !.why = "retry", !.retries = @ + 1,
                       !.eta = clock + c] : c \in countdown_set}

\* faulty variant: the invocation is queued again however many retries it has
\* made
retry_unbounded(task, max_retries, countdown_set) ==
    {[task EXCEPT !.st = "queued", !.why = "retry", !.retries = @ + 1,
                  !.eta = clock + c] : c \in countdown_set}

\* self.retry(countdown=...): the invocation is queued again after countdown
\* seconds, or MaxRetriesExceededError is raised once request.retries has
\* reached max_retries
retry(task, max_retries, countdown_set) ==
    IF task.retries >= max_retries
    THEN {raised(task, "MaxRetriesExceededError")}
    ELSE {[task EXCEPT !.st = "queued", !.why = "retry", !.retries = @ + 1,
                       !.eta = clock + c] : c \in countdown_set}

\* the arguments a caller can pass for the target
ByIdOrName(ids) ==
    {<<i, NoName>> : i \in ids} \cup {<<None, Handle[i]>> : i \in ids}

Selectors(ids) ==
    {<<None, NoName>>} \cup ByIdOrName(ids) \cup {<<i, Handle[i]>> : i \in ids}

\* create_relationship.apply_async / .delay
create_relationship_delay(user, type, sel, until) ==
    /\ UNCHANGED applied
    /\ Len(tasks) + Len(walks) < MaxJobs
    /\ tasks' = Append(tasks, new_task("create", user, type, sel[1], sel[2], until))
    /\ UNCHANGED <<clock, users, accounts, rels, log, cache, walks, twitter>>

\* destroy_relationship.apply_async / .delay
destroy_relationship_delay(user, type, sel) ==
    /\ UNCHANGED applied
    /\ Len(tasks) + Len(walks) < MaxJobs
    /\ tasks' = Append(tasks, new_task("destroy", user, type, sel[1], sel[2], None))
    /\ UNCHANGED <<clock, users, accounts, rels, log, cache, walks, twitter>>

\* create_relationship up to the remote call: the sanity check, the
\* existing relationship, the follows policy and the cached rate limit
create_relationship_begin(t) ==
    /\ UNCHANGED applied
    /\ LET task == [tasks[t] EXCEPT !.now = clock]
           subject == users[task.user].account
           existing == existing_qs(rels, subject, task.type, task.user_id, task.screen_name)
           rate_limited == cache_get(rate_limit_key(task.user, create_op(task.type)))
       IN  /\ task.kind = "create" /\ task.st = "queued" /\ task.eta <= clock
           /\ UNCHANGED <<clock, users, accounts, log, cache, walks, twitter>>
           /\ IF task.screen_name = NoName /\ task.user_id = None
              THEN /\ tasks' = [tasks EXCEPT ![t] = raised(task, "ValueError")]
                   /\ rels' = rels
              ELSE IF ~users[task.user].is_twitter_api_enabled
              THEN /\ tasks' = [tasks EXCEPT ![t] = returned(task, "disabled")]
                   /\ rels' = rels
              ELSE IF existing # {}
              THEN /\ rels' = {IF r \in existing THEN [r EXCEPT !.until = task.until] ELSE r :
                                  r \in rels}
                   /\ tasks' = [tasks EXCEPT ![t] = returned(task, "exists")]
              ELSE IF follows_asserts(task.user_id, task.screen_name)
              THEN /\ tasks' = [tasks EXCEPT ![t] = raised(task, "AssertionError")]
                   /\ rels' = rels
              ELSE IF follows(subject, task.user_id, task.screen_name)
              THEN /\ tasks' = [tasks EXCEPT ![t] = returned(task, "follows")]
                   /\ rels' = rels
              ELSE IF rate_limited # None
              THEN /\ \E nt \in retry(task, MaxRetries,
                           twitter_retry_timeout((rate_limited - task.now) + CreateSlack,
                                                 task.retries)) :
                           tasks' = [tasks EXCEPT ![t] = nt]
                   /\ rels' = rels
              ELSE /\ tasks' = [tasks EXCEPT ![t] = [task EXCEPT !.st = "calling"]]
                   /\ rels' = rels

\* the outcomes of the remote mutation calls
CreateOutcomes == {"ok", "RATE_LIMITED", "ERROR"}
DestroyOutcomes == {"ok", "RATE_LIMITED", "ALREADY_UNDONE", "PAGE_GONE", "ERROR"}

\* the log message of a successful mutation
mutation_message(verb, account, until) == <<verb, account, until>>

log_entry(user, time, message) == [user |-> user, time |-> time, message |-> message]

\* create_relationship, the remote call; on success Account.get_account and
\* the read of add_relationships
create_relationship_call(t, outcome) ==
    /\ UNCHANGED applied
    /\ LET task == [tasks[t] EXCEPT !.calls = @ + 1, !.reply = outcome]
           subject == users[task.user].account
           key == rate_limit_key(task.user, create_op(task.type))
           account == RemoteUser(task.user_id, task.screen_name)
           entry == log_entry(task.user, task.now, <<"Rate limited">>)
       IN  /\ task.kind = "create" /\ task.st = "calling"
           /\ UNCHANGED <<clock, users, accounts, rels, walks, twitter>>
           /\ IF outcome = "RATE_LIMITED"
              THEN /\ cache' = cache_set(key, task.now + Window, Window)
                   /\ log' = transaction_atomic(log, log (+) SetToBag({entry}), TRUE)
                   /\ \E nt \in retry(task, MaxRetries,
                                      twitter_retry_timeout(Window, task.retries)) :
                           tasks' = [tasks EXCEPT ![t] = nt]
              ELSE IF outcome = "ERROR"
              THEN /\ tasks' = [tasks EXCEPT ![t] = raised(task, "TwitterError")]
                   /\ UNCHANGED <<cache, log>>
              ELSE /\ tasks' = [tasks EXCEPT ![t] =
                           [task EXCEPT !.st = "writing", !.account = account,
                                        !.pairs = to_create(task.type, {subject}, {account})]]
                   /\ UNCHANGED <<cache, log>>

\* create_relationship, the write of add_relationships, the log message and
\* the commit
create_relationship_write(t) ==
    /\ UNCHANGED applied
    /\ LET task == tasks[t]
           subject == users[task.user].account
           verb == IF task.type = BLOCK THEN "blocked" ELSE "muted"
           entry == log_entry(task.user, task.now,
                              mutation_message(verb, task.account, task.until))
           fails == unique_together_violated(rels, task.type, task.pairs)
       IN  /\ task.kind = "create" /\ task.st = "writing"
           /\ UNCHANGED <<clock, users, cache, walks, twitter>>
           /\ accounts' = transaction_atomic(accounts,
                               get_accounts_users(accounts, {task.account}), fails)
           /\ rels' = transaction_atomic(rels,
                           add_relationships_write(rels, task.type, {subject}, {task.account},
                                                   task.pairs, task.now, task.until), fails)
           /\ log' = transaction_atomic(log, log (+) SetToBag({entry}), fails)
           /\ tasks' = [tasks EXCEPT ![t] =
                           IF fails THEN raised(task, "IntegrityError")
                           ELSE returned(task, "created")]

\* destroy_relationship up to the remote call
destroy_relationship_begin(t) ==
    /\ UNCHANGED applied
    /\ LET task == [tasks[t] EXCEPT !.now = clock]
           subject == users[task.user].account
           existing == existing_qs(rels, subject, task.type, task.user_id, task.screen_name)
           rate_limited == cache_get(rate_limit_key(task.user, destroy_op(task.type)))
       IN  /\ task.kind = "destroy" /\ task.st = "queued" /\ task.eta <= clock
           /\ UNCHANGED <<clock, users, accounts, rels, log, cache, walks, twitter>>
           /\ IF task.screen_name = NoName /\ task.user_id = None
              THEN tasks' = [tasks EXCEPT ![t] = raised(task, "ValueError")]
              ELSE IF ~users[task.user].is_twitter_api_enabled
              THEN tasks' = [tasks EXCEPT ![t] = returned(task, "disabled")]
              ELSE IF existing = {}
              THEN tasks' = [tasks EXCEPT ![t] = returned(task, "absent")]
              ELSE IF rate_limited # None
              THEN \E nt \in retry(task, MaxRetries,
                           twitter_retry_timeout(rate_limited - task.now, task.retries)) :
                       tasks' = [tasks EXCEPT ![t] = nt]
              ELSE tasks' = [tasks EXCEPT ![t] = [task EXCEPT !.st = "calling"]]

\* destroy_relationship, the remote call and what follows it
destroy_relationship_call(t, outcome) ==
    /\ UNCHANGED applied
    /\ LET task == [tasks[t] EXCEPT !.calls = @ + 1, !.reply = outcome]
           subject == users[task.user].account
           key == rate_limit_key(task.user, destroy_op(task.type))
           existing == existing_qs(rels, subject, task.type, task.user_id, task.screen_name)
           account == RemoteUser(task.user_id, task.screen_name)
           verb == IF task.type = BLOCK THEN "unblocked" ELSE "unmuted"
           entry == log_entry(task.user, task.now, mutation_message(verb, account, None))
       IN  /\ task.kind = "destroy" /\ task.st = "calling"
           /\ UNCHANGED <<clock, users, walks, twitter>>
           /\ IF outcome = "RATE_LIMITED"
              THEN /\ cache' = cache_set(key, task.now + Window, Window)
                   /\ \E nt \in retry(task, MaxRetries,
                                      twitter_retry_timeout(Window, task.retries)) :
                           tasks' = [tasks EXCEPT ![t] = nt]
                   /\ UNCHANGED <<accounts, rels, log>>
              ELSE IF outcome = "ALREADY_UNDONE"
              THEN /\ rels' = queryset_delete(rels, existing)
                   /\ tasks' = [tasks EXCEPT ![t] = returned(task, "already undone")]
                   /\ UNCHANGED <<accounts, log, cache>>
              ELSE IF outcome = "PAGE_GONE"
              THEN IF Cardinality(existing) # 1
                   THEN /\ tasks' = [tasks EXCEPT ![t] =
                               raised(task, IF existing = {} THEN "DoesNotExist"
                                            ELSE "MultipleObjectsReturned")]
                        /\ UNCHANGED <<accounts, rels, log, cache>>
                   ELSE LET gone == (CHOOSE r \in existing : TRUE).object
                        IN  /\ rels' = account_delete_rels(rels, gone)
                            /\ accounts' = account_delete(accounts, gone)
                            /\ tasks' = [tasks EXCEPT ![t] = returned(task, "page gone")]
                            /\ UNCHANGED <<log, cache>>
              ELSE IF outcome = "ERROR"
              THEN /\ tasks' = [tasks EXCEPT ![t] = raised(task, "TwitterError")]
                   /\ UNCHANGED <<accounts, rels, log, cache>>
              ELSE /\ accounts' = get_accounts_users(accounts, {account})
                   /\ rels' = queryset_delete(rels, triple_rows(rels, task.type, subject, account))
                   /\ log' = log (+) SetToBag({entry})
                   /\ tasks' = [tasks EXCEPT ![t] = returned(task, "destroyed")]
                   /\ UNCHANGED cache

\* faulty variant: an edge counts as expired at its `until`
expired_or_due(now) ==
    {<<u, r>> \in (DOMAIN users) \X rels :
        /\ users[u].is_twitter_api_enabled
        /\ r.type \in {BLOCKS, MUTES}
        /\ r.subject = users[u].account
        /\ r.until # None /\ r.until <= now}

\* faulty variant: the mutes are left out of the sweep
expired_blocks_only(now) ==
    {<<u, r>> \in (DOMAIN users) \X rels :
        /\ users[u].is_twitter_api_enabled
        /\ r.type = BLOCKS
        /\ r.subject = users[u].account
        /\ r.until # None /\ r.until < now}

\* unblock_expired: the users with the API enabled and, for each, the expired
\* blocks and mutes of the account (until__lt=now is not true of a NULL)
expired_blocks(now) ==
    {<<u, r>> \in (DOMAIN users) \X rels :
        /\ users[u].is_twitter_api_enabled
        /\ r.type \in {BLOCKS, MUTES}
        /\ r.subject = users[u].account
        /\ r.until # None /\ r.until < now}

\* the countdowns random.randint(1, 60 * 15) draws that the model follows: the
\* first and the last
sweep_countdowns == {1, SweepJitter}

\* the queue after apply_async for each of the expired edges, each with the
\* countdown drawn for it
RECURSIVE apply_async_each(_, _, _)
apply_async_each(queue, expired, countdown) ==
    IF expired = {} THEN queue
    ELSE LET e == CHOOSE x \in expired : TRUE
         IN  apply_async_each(
                Append(queue,
                       [new_task("destroy", e[1], e[2].type, e[2].object, NoName, None)
                            EXCEPT !.eta = clock + countdown[e],
                                   !.max_retries = SweepMaxRetries]),
                expired \ {e}, countdown)

\* the invocations that have not ended
in_queue == {t \in DOMAIN tasks : tasks[t].st \notin {"returned", "raised"}}

\* unblock_expired, run by the periodic schedule (now is timezone.now())
unblock_expired ==
    /\ UNCHANGED applied
    /\ expired_blocks(clock) # {}
    /\ Cardinality(in_queue) + Cardinality(expired_blocks(clock)) <= MaxQueued
    /\ \E countdown \in [expired_blocks(clock) -> sweep_countdowns] :
            tasks' = apply_async_each(tasks, expired_blocks(clock), countdown)
    /\ UNCHANGED <<clock, users, accounts, rels, log, cache, walks, twitter>>

\* time passes
Tick ==
    /\ UNCHANGED applied
    /\ clock + TickSeconds <= StartTime + MaxTicks * TickSeconds
    /\ clock' = clock + TickSeconds
    /\ cache' = cache_expire(clock + TickSeconds)
    /\ UNCHANGED <<users, accounts, rels, log, tasks, walks, twitter>>

-----------------------------------------------------------------------------
(* The paged listing walk: twitter_paged_call_iterator *)

\* the remote listings a walk can meet: at most n pages of disjoint sets of
\* users

RECURSIVE Listings(_, _)
Listings(ids, n) ==
    IF n = 0 THEN {<< >>}
    ELSE {<< >>} \cup
         UNION {{<<page>> \o rest : rest \in Listings(ids \ page, n - 1)} :
                    page \in SUBSET ids}

\* api_function(cursor=cursor): cursor -1 is the first page, a next_cursor of
\* 0 ends the listing
page_index(cursor) == IF cursor = -1 THEN 1 ELSE cursor

page_data(remote, cursor) ==
    IF page_index(cursor) <= Len(remote) THEN remote[page_index(cursor)] ELSE {}

page_next_cursor(remote, cursor) ==
    IF page_index(cursor) < Len(remote) THEN page_index(cursor) + 1 ELSE 0

\* the type of the rows a walk keeps: twitter_update_followers and
\* twitter_update_friends keep FOLLOWS rows
walk_type(kind) ==
    IF kind = "blocks" THEN BLOCKS ELSE IF kind = "mutes" THEN MUTES ELSE FOLLOWS

\* the subjects and objects its page handler passes to add_relationships:
\* add_followers has the page's accounts as subjects, the others as objects
walk_subjects(walk, page) == IF walk.kind = "followers" THEN page ELSE {walk.account}

walk_objects(walk, page) == IF walk.kind = "followers" THEN {walk.account} ELSE page

WalkKinds == {"friends", "followers", "blocks", "mutes"}

\* the first invocation of a walk as twitter_paged_call_iterator.delay queues
\* it, with the handlers bound to `now`
new_walk(user, kind, get_profiles, max_pages, remote) ==
    [kind |-> kind, user |-> user, account |-> users[user].account,
     get_profiles |-> get_profiles, now |-> clock, remote |-> remote,
     cursor |-> -1, max_pages |-> max_pages, current_page |-> 1,
     retries |-> 0, eta |-> clock, st |-> "queued", why |-> "",
     data |-> {}, next_cursor |-> 0, pairs |-> {},
     pages |-> 0, finishes |-> 0, seen |-> {}, reply |-> "",
     before |-> {r \in rels : r.type = walk_type(kind)}]

\* twitter_update_followers / _friends / _blocks / _mutes
twitter_update(user, kind, get_profiles, max_pages, remote) ==
    /\ UNCHANGED applied
    /\ Len(tasks) + Len(walks) < MaxJobs
    /\ Len(walks) < MaxWalks
    /\ users[user].is_twitter_api_enabled
    /\ kind = "friends" \/ ~get_profiles
    /\ walks' = Append(walks, new_walk(user, kind, get_profiles, max_pages, remote))
    /\ UNCHANGED <<clock, users, accounts, rels, log, cache, tasks, twitter>>

\* the max_pages the walk was started with: each next page is queued with
\* max_pages one less and current_page one more
started_max_pages(walk) == walk.max_pages + walk.current_page - 1

WalkOutcomes == {"ok", "RATE_LIMITED", "ERROR"}

\* twitter_paged_call_iterator, the remote call; on success
\* Account.get_accounts and the read of the page handler's add_relationships
twitter_paged_call_iterator_fetch(w, outcome) ==
    /\ UNCHANGED applied
    /\ LET walk == [walks[w] EXCEPT !.reply = outcome]
           data == page_data(walk.remote, walk.cursor)
       IN  /\ walk.st = "queued" /\ walk.eta <= clock
           /\ UNCHANGED <<clock, users, rels, log, cache, tasks, twitter>>
           /\ IF outcome = "RATE_LIMITED"
              THEN /\ \E nw \in retry(walk, WalkMaxRetries,
                                      twitter_retry_timeout(Window, walk.retries)) :
                           walks' = [walks EXCEPT ![w] = nw]
                   /\ accounts' = accounts
              ELSE IF outcome = "ERROR"
              THEN /\ walks' = [walks EXCEPT ![w] = raised(walk, "TwitterError")]
                   /\ accounts' = accounts
              ELSE /\ accounts' = IF walk.get_profiles
                                  THEN get_accounts_users(accounts, data)
                                  ELSE get_accounts_ids(accounts, data)
                   /\ walks' = [walks EXCEPT ![w] =
                           [walk EXCEPT !.st = "handling", !.data = data,
                                        !.next_cursor = page_next_cursor(walk.remote, walk.cursor),
                                        !.pairs = to_create(walk_type(walk.kind),
                                                            walk_subjects(walk, data),
                                                            walk_objects(walk, data))]]

\* faulty variant: the finish handlers run after the page handlers of any page
after_page_eager(next_cursor, max_pages) == "finish"

\* faulty variant: the finish handlers run whenever no next page is queued
after_page_finishing(next_cursor, max_pages) ==
    IF next_cursor # 0 /\ max_pages # 0 THEN "next" ELSE "finish"

\* what follows the page handlers: the next page is queued when there is a
\* next cursor and max_pages is not 0; the finish handlers run only when
\* there is no next cursor
after_page(next_cursor, max_pages) ==
    IF next_cursor # 0 /\ max_pages # 0 THEN "next"
    ELSE IF next_cursor # 0 THEN "stop"
    ELSE "finish"

\* a foreign key of a new row names an account that is gone
foreign_key_violated(A, pairs) ==
    \E p \in pairs : p[1] \notin DOMAIN A \/ p[2] \notin DOMAIN A

\* twitter_paged_call_iterator, the write of the page handler, then the next
\* page is queued when there is a next cursor and max_pages is not 0
twitter_paged_call_iterator_handle(w) ==
    /\ UNCHANGED applied
    /\ LET walk == walks[w]
           page == walk.data \cap DOMAIN accounts
           fails == \/ unique_together_violated(rels, walk_type(walk.kind), walk.pairs)
                    \/ foreign_key_violated(accounts, walk.pairs)
           handled == [walk EXCEPT !.pages = @ + 1, !.seen = @ \cup walk.data]
       IN  /\ walk.st = "handling"
           /\ UNCHANGED <<clock, users, accounts, log, cache, tasks, twitter>>
           /\ rels' = transaction_atomic(rels,
                           add_relationships_write(rels, walk_type(walk.kind),
                                                   walk_subjects(walk, page),
                                                   walk_objects(walk, page),
                                                   walk.pairs, walk.now, None), fails)
           /\ walks' = [walks EXCEPT ![w] =
                   IF fails THEN raised(walk, "IntegrityError")
                   ELSE IF after_page(walk.next_cursor, walk.max_pages) = "next"
                   THEN [handled EXCEPT !.st = "queued", !.why = "next page",
                                        !.cursor = walk.next_cursor,
                                        !.max_pages = @ - 1, !.current_page = @ + 1,
                                        !.retries = 0, !.eta = clock]
                   ELSE IF after_page(walk.next_cursor, walk.max_pages) = "stop"
                   THEN [returned(handled, "truncated") EXCEPT !.now = walk.now]
                   ELSE [handled EXCEPT !.st = "finishing"]]

\* twitter_paged_call_iterator, the finish handler: remove_..._older_than(now)
twitter_paged_call_iterator_finish(w) ==
    /\ UNCHANGED applied
    /\ LET walk == walks[w]
       IN  /\ walk.st = "finishing"
           /\ UNCHANGED <<clock, users, accounts, log, cache, tasks, twitter>>
           /\ rels' = remove_relationships(rels, walk_type(walk.kind),
                           IF walk.kind = "followers" THEN None ELSE walk.account,
                           IF walk.kind = "followers" THEN walk.account ELSE None,
                           walk.now)
           /\ walks' = [walks EXCEPT ![w] =
                           [returned(walk, "finished") EXCEPT !.finishes = @ + 1,
                                                              !.now = walk.now]]

-----------------------------------------------------------------------------
(* Spec: the mutation tasks and the walks of one principal, interleaved,    *)
(* from an empty store                                                      *)

OneUser(enabled) ==
    [u \in {1} |-> [is_twitter_api_enabled |-> enabled, account |-> Subject]]

Init ==
    /\ clock = StartTime
    /\ applied = NoCall
    /\ twitter = {2}
    /\ users = OneUser(TRUE)
    /\ accounts = [a \in {Subject} |-> Handle[Subject]]
    /\ rels = {}
    /\ log = EmptyBag
    /\ cache = << >>
    /\ tasks = << >>
    /\ walks = << >>

Next ==
    \/ \E u \in DOMAIN users, type \in {BLOCK, MUTE}, sel \in ByIdOrName(twitter),
          until \in Untils :
            create_relationship_delay(u, type, sel, until)
    \/ \E u \in DOMAIN users, type \in {BLOCK, MUTE}, sel \in ByIdOrName(twitter) :
            destroy_relationship_delay(u, type, sel)
    \/ \E t \in DOMAIN tasks : create_relationship_begin(t)
    \/ \E t \in DOMAIN tasks, outcome \in CreateOutcomes : create_relationship_call(t, outcome)
    \/ \E t \in DOMAIN tasks : create_relationship_write(t)
    \/ \E t \in DOMAIN tasks : destroy_relationship_begin(t)
    \/ \E t \in DOMAIN tasks, outcome \in DestroyOutcomes : destroy_relationship_call(t, outcome)
    \/ \E u \in DOMAIN users, kind \in {"friends", "blocks"}, get_profiles \in {FALSE},
          max_pages \in 0..MaxPagesArg, remote \in Listings(twitter, MaxListPages) :
            twitter_update(u, kind, get_profiles, max_pages, remote)
    \/ \E w \in DOMAIN walks, outcome \in WalkOutcomes :
            twitter_paged_call_iterator_fetch(w, outcome)
    \/ \E w \in DOMAIN walks : twitter_paged_call_iterator_handle(w)
    \/ \E w \in DOMAIN walks : twitter_paged_call_iterator_finish(w)
    \/ Tick

Spec == Init /\ [][Next]_vars

-----------------------------------------------------------------------------
(* SpecAttempt: one invocation of a mutation task, from the stores earlier  *)
(* tasks and walks leave behind                                             *)

\* a time before the first clock value
Before == StartTime - TickSeconds

\* rows of the principal with account 2 and account 3, as earlier walks
\* (FOLLOWS, both ways) and mutation tasks (BLOCKS, MUTES) leave them
PriorStores ==
    {   {Row(FOLLOWS, Subject, 2, 1, Before, None) : x \in friend}
   \cup {Row(FOLLOWS, 2, Subject, 1, Before, None) : x \in follower}
   \cup {Row(BLOCKS, Subject, 2, 1, Before, u) : u \in block}
   \cup {Row(MUTES, Subject, 2, 1, Before, u) : u \in mute}
   \cup {Row(BLOCKS, Subject, 3, 1, Before, None) : x \in other}
        : <<friend, follower, block, mute, other>> \in
            {{}, {1}} \X {{}, {1}} \X {{}, {None}, {UntilEarly}} \X {{}, {None}}
                \X {{}, {1}}}

\* the markers an earlier rate-limited attempt leaves for the four operations
\* of the principal: none, or one set at StartTime by an attempt that began
\* then or at Before
PriorCaches ==
    {<< >>} \cup
    {[k \in {rate_limit_key(1, op) :
                op \in {"create_block", "create_mute", "destroy_block", "destroy_mute"}}
        |-> [value |-> began + Window, expires |-> StartTime + Window]] :
            began \in {Before, StartTime}}

InitAttempt ==
    /\ clock = StartTime
    /\ applied = NoCall
    /\ twitter = {2, 3}
    /\ \E enabled \in BOOLEAN : users = OneUser(enabled)
    /\ \E name \in {NoName, Handle[2]} :
            accounts = [a \in {Subject, 2, 3} |->
                            IF a = 2 THEN name ELSE IF a = 3 THEN NoName ELSE Handle[a]]
    /\ rels \in PriorStores
    /\ log = EmptyBag
    /\ cache \in PriorCaches
    /\ \E type \in {BLOCK, MUTE}, sel \in Selectors({2}), until \in Untils,
          kind \in {"create", "destroy"}, retries \in {0, MaxRetries} :
            /\ kind = "destroy" => until = None
            /\ tasks = <<[new_task(kind, 1, type, sel[1], sel[2], until)
                            EXCEPT !.retries = retries]>>
    /\ walks = << >>

NextAttempt ==
    \/ \E t \in DOMAIN tasks : create_relationship_begin(t)
    \/ \E t \in DOMAIN tasks, outcome \in CreateOutcomes : create_relationship_call(t, outcome)
    \/ \E t \in DOMAIN tasks : create_relationship_write(t)
    \/ \E t \in DOMAIN tasks : destroy_relationship_begin(t)
    \/ \E t \in DOMAIN tasks, outcome \in DestroyOutcomes : destroy_relationship_call(t, outcome)
    \/ Tick

SpecAttempt == InitAttempt /\ [][NextAttempt]_vars

-----------------------------------------------------------------------------
(* SpecRetry: one mutation task that the remote API rate limits again and   *)
(* again, until its retries run out                                         *)

\* the worker waits for the eta of a queued invocation
Elapse ==
    /\ UNCHANGED applied
    /\ \E eta \in {tasks[t].eta : t \in {x \in DOMAIN tasks : tasks[x].st = "queued"}}
                 \cup {walks[w].eta : w \in {x \in DOMAIN walks : walks[x].st = "queued"}} :
            /\ eta > clock
            /\ clock' = eta
            /\ cache' = cache_expire(eta)
    /\ UNCHANGED <<users, accounts, rels, log, tasks, walks, twitter>>

InitRetry ==
    /\ clock = StartTime
    /\ applied = NoCall
    /\ twitter = {2, 3}
    /\ users = OneUser(TRUE)
    /\ accounts = [a \in {Subject, 2, 3} |-> NoName]
    /\ rels = {Row(BLOCKS, Subject, 2, 1, Before, None),
               Row(MUTES, Subject, 2, 1, Before, None)}
    /\ log = EmptyBag
    /\ cache = << >>
    /\ \E type \in {BLOCK, MUTE} :
            \/ tasks = <<new_task("create", 1, type, 3, NoName, UntilLate)>>
            \/ tasks = <<new_task("destroy", 1, type, 2, NoName, None)>>
    /\ walks = << >>

NextRetry ==
    \/ \E t \in DOMAIN tasks : create_relationship_begin(t)
    \/ \E t \in DOMAIN tasks, outcome \in CreateOutcomes : create_relationship_call(t, outcome)
    \/ \E t \in DOMAIN tasks : create_relationship_write(t)
    \/ \E t \in DOMAIN tasks : destroy_relationship_begin(t)
    \/ \E t \in DOMAIN tasks, outcome \in DestroyOutcomes : destroy_relationship_call(t, outcome)
    \/ Tick
    \/ Elapse

SpecRetry == InitRetry /\ [][NextRetry]_vars

-----------------------------------------------------------------------------
(* SpecBudget: one invocation as _block_multiple or unblock_expired queues  *)
(* it, with the max_retries option, run again and again until its retries   *)
(* run out                                                                  *)

\* _block_multiple: the create queued for the first account of the page
\* (countdown 1 + int(0 * (60 * 15 / 5000)))
block_multiple(type, user, user_id, until) ==
    [new_task("create", user, type, user_id, NoName, until)
        EXCEPT !.eta = clock + 1, !.max_retries = BlockMultipleMaxRetries]

InitBudget ==
    /\ clock = StartTime
    /\ applied = NoCall
    /\ twitter = {2, 3}
    /\ users = OneUser(TRUE)
    /\ accounts = [a \in {Subject, 2, 3} |-> NoName]
    /\ rels = {Row(BLOCKS, Subject, 2, 1, Before, Before),
               Row(MUTES, Subject, 2, 1, Before, Before)}
    /\ log = EmptyBag
    /\ cache \in PriorCaches
    /\ \E type \in {BLOCK, MUTE} :
            \/ tasks = <<block_multiple(type, 1, 3, UntilLate)>>
            \/ \E countdown \in [expired_blocks(clock) -> sweep_countdowns] :
                    tasks = apply_async_each(<< >>, {e \in expired_blocks(clock) : e[2].type = type},
                                             countdown)
    /\ walks = << >>

NextBudget ==
    \/ \E t \in DOMAIN tasks : create_relationship_begin(t)
    \/ \E t \in DOMAIN tasks, outcome \in CreateOutcomes : create_relationship_call(t, outcome)
    \/ \E t \in DOMAIN tasks : create_relationship_write(t)
    \/ \E t \in DOMAIN tasks : destroy_relationship_begin(t)
    \/ \E t \in DOMAIN tasks, outcome \in DestroyOutcomes : destroy_relationship_call(t, outcome)
    \/ Elapse

SpecBudget == InitBudget /\ [][NextBudget]_vars

-----------------------------------------------------------------------------
(* SpecDelay: _twitter_retry_timeout applied to a base and a number of      *)
(* retries                                                                  *)

\* the store, the cache and the queues, empty and left alone
nothing_else ==
    /\ clock = StartTime
    /\ twitter = {}
    /\ users = OneUser(TRUE)
    /\ accounts = [a \in {Subject} |-> NoName]
    /\ rels = {}
    /\ log = EmptyBag
    /\ cache = << >>
    /\ tasks = << >>
    /\ walks = << >>

InitDelay ==
    /\ nothing_else
    /\ \E base \in 0..MaxBase, retries \in 0..MaxRetryCount :
            applied = [f |-> "_twitter_retry_timeout", st |-> "called",
                       base |-> base, retries |-> retries, timeout |-> None]

\* _twitter_retry_timeout(base, retries) returns
twitter_retry_timeout_return ==
    /\ applied.f = "_twitter_retry_timeout" /\ applied.st = "called"
    /\ \E timeout \in twitter_retry_timeout(applied.base, applied.retries) :
            applied' = [applied EXCEPT !.st = "returned", !.timeout = timeout]
    /\ UNCHANGED <<clock, users, accounts, rels, log, cache, tasks, walks, twitter>>

NextDelay == twitter_retry_timeout_return

SpecDelay == InitDelay /\ [][NextDelay]_vars

-----------------------------------------------------------------------------
(* SpecBucket: the token bucket of a User and withdraw_tokens               *)

\* User.token_bucket: the TokenBucket of the four fields of the row
token_bucket(user) ==
    [time |-> user.token_bucket_time, rate |-> user.token_bucket_rate,
     max |-> user.token_bucket_max, value |-> user.token_bucket_value]

\* TokenBucket.value_at: the parts available at now
value_at(bucket, now) == Min(bucket.max, bucket.value + bucket.rate * (now - bucket.time))

\* TokenBucket.withdraw: the new bucket, or the failure
withdraw(bucket, now, parts) ==
    IF parts > value_at(bucket, now)
    THEN [raised |-> "InsufficientQuota"]
    ELSE [bucket EXCEPT !.time = now, !.value = value_at(bucket, now) - parts]

\* User.current_tokens: int(...) of the tokens available
current_tokens(user) == value_at(token_bucket(user), clock) \div TokenParts

\* faulty variant: a withdrawal beyond the holding takes what there is
withdraw_tokens_partial(u, value) ==
    /\ applied' = [f |-> "withdraw_tokens", st |-> "returned", why |-> "",
                   user |-> u, value |-> value]
    /\ users' = [users EXCEPT
                    ![u].token_bucket_time = clock,
                    ![u].token_bucket_value =
                        value_at(token_bucket(users[u]), clock)
                            - Min(value * TokenParts, value_at(token_bucket(users[u]), clock))]
    /\ UNCHANGED <<clock, accounts, rels, log, cache, tasks, walks, twitter>>

\* User.withdraw_tokens(value), value in tokens
withdraw_tokens(u, value) ==
    /\ IF value > current_tokens(users[u])
       THEN /\ applied' = [f |-> "withdraw_tokens", st |-> "raised", why |-> "ValueError",
                           user |-> u, value |-> value]
            /\ UNCHANGED users
       ELSE LET bucket == withdraw(token_bucket(users[u]), clock, value * TokenParts)
            IN  IF "raised" \in DOMAIN bucket
                THEN /\ applied' = [f |-> "withdraw_tokens", st |-> "raised",
                                    why |-> "InsufficientQuota", user |-> u, value |-> value]
                     /\ UNCHANGED users
                ELSE /\ applied' = [f |-> "withdraw_tokens", st |-> "returned", why |-> "",
                                    user |-> u, value |-> value]
                     /\ users' = [users EXCEPT ![u].token_bucket_time = bucket.time,
                                               ![u].token_bucket_rate = bucket.rate,
                                               ![u].token_bucket_max = bucket.max,
                                               ![u].token_bucket_value = bucket.value]
    /\ UNCHANGED <<clock, accounts, rels, log, cache, tasks, walks, twitter>>

\* a User row with its token bucket fields
UserWithBucket(time, rate, max, value) ==
    [u \in {1} |-> [is_twitter_api_enabled |-> TRUE, account |-> Subject,
                    token_bucket_time |-> time, token_bucket_rate |-> rate,
                    token_bucket_max |-> max, token_bucket_value |-> value]]

InitBucket ==
    /\ clock = StartTime
    /\ applied = NoCall
    /\ twitter = {}
    /\ \E age \in 0..MaxAge, rate \in 0..MaxRate, max \in 1..(MaxTokens * TokenParts) :
            \E value \in 0..max : users = UserWithBucket(StartTime - age, rate, max, value)
    /\ accounts = [a \in {Subject} |-> NoName]
    /\ rels = {}
    /\ log = EmptyBag
    /\ cache = << >>
    /\ tasks = << >>
    /\ walks = << >>

NextBucket ==
    \/ \E u \in DOMAIN users, value \in 0..(MaxTokens + 1) : withdraw_tokens(u, value)
    \/ Tick

SpecBucket == InitBucket /\ [][NextBucket]_vars

-----------------------------------------------------------------------------
(* SpecWithdraw: two workers withdraw from the token bucket of one User,    *)
(* each on the instance it has loaded from the row, and save it             *)

\* the four token bucket fields of a User instance after the setter
set_token_bucket(user, bucket) ==
    [user EXCEPT !.token_bucket_time = bucket.time, !.token_bucket_rate = bucket.rate,
                 !.token_bucket_max = bucket.max, !.token_bucket_value = bucket.value]

\* faulty variant: the withdrawal is applied without either check
instance_withdraw_unchecked(user, value) ==
    [st |-> "returned", why |-> "",
     user |-> [user EXCEPT !.token_bucket_time = clock,
                           !.token_bucket_value = @ - value * TokenParts]]

\* User.withdraw_tokens(value) on an instance: how it ends and the instance
\* it leaves
instance_withdraw_tokens(user, value) ==
    IF value > current_tokens(user)
    THEN [st |-> "raised", why |-> "ValueError", user |-> user]
    ELSE LET bucket == withdraw(token_bucket(user), clock, value * TokenParts)
         IN  IF "raised" \in DOMAIN bucket
             THEN [st |-> "raised", why |-> "InsufficientQuota", user |-> user]
             ELSE [st |-> "returned", why |-> "", user |-> set_token_bucket(user, bucket)]

\* a worker that is to withdraw from the bucket of user u
new_withdrawal(u) ==
    [kind |-> "withdraw", user |-> u, st |-> "queued", why |-> "", value |-> 0,
     read |-> users[u], instance |-> users[u]]

\* the worker loads the User row
withdrawal_read(t) ==
    /\ tasks[t].kind = "withdraw" /\ tasks[t].st = "queued"
    /\ tasks' = [tasks EXCEPT ![t] = [@ EXCEPT !.st = "read",
                                               !.read = users[tasks[t].user],
                                               !.instance = users[tasks[t].user]]]
    /\ UNCHANGED <<clock, users, accounts, rels, log, cache, walks, twitter, applied>>

\* the worker calls withdraw_tokens(value) on its instance
withdrawal_check(t, value) ==
    /\ tasks[t].kind = "withdraw" /\ tasks[t].st = "read"
    /\ LET ends == instance_withdraw_tokens(tasks[t].instance, value)
       IN  tasks' = [tasks EXCEPT ![t] =
                [@ EXCEPT !.st = IF ends.st = "raised" THEN "raised" ELSE "withdrawn",
                          !.why = ends.why, !.value = value,
                          !.instance = ends.user]]
    /\ UNCHANGED <<clock, users, accounts, rels, log, cache, walks, twitter, applied>>

\* the worker saves its instance to the row
withdrawal_write(t) ==
    /\ tasks[t].kind = "withdraw" /\ tasks[t].st = "withdrawn"
    /\ users' = [users EXCEPT ![tasks[t].user] = tasks[t].instance]
    /\ tasks' = [tasks EXCEPT ![t].st = "returned"]
    /\ UNCHANGED <<clock, accounts, rels, log, cache, walks, twitter, applied>>

InitWithdraw ==
    /\ clock = StartTime
    /\ applied = NoCall
    /\ twitter = {}
    /\ \E age \in 0..MaxAge, rate \in 0..MaxRate, max \in 1..(MaxTokens * TokenParts) :
            \E value \in 0..max : users = UserWithBucket(StartTime - age, rate, max, value)
    /\ accounts = [a \in {Subject} |-> NoName]
    /\ rels = {}
    /\ log = EmptyBag
    /\ cache = << >>
    /\ tasks = <<new_withdrawal(1), new_withdrawal(1)>>
    /\ walks = << >>

NextWithdraw ==
    \/ \E t \in DOMAIN tasks : withdrawal_read(t)
    \/ \E t \in DOMAIN tasks, value \in 0..(MaxTokens + 1) : withdrawal_check(t, value)
    \/ \E t \in DOMAIN tasks : withdrawal_write(t)
    \/ Tick

SpecWithdraw == InitWithdraw /\ [][NextWithdraw]_vars

-----------------------------------------------------------------------------
(* SpecQuota: one attempt of a mutation task of a principal whose token     *)
(* bucket is empty or full                                                  *)

InitQuota ==
    /\ clock = StartTime
    /\ applied = NoCall
    /\ twitter = {2, 3}
    /\ \E rate \in 0..MaxRate, value \in {0, MaxTokens * TokenParts} :
            users = UserWithBucket(StartTime, rate, MaxTokens * TokenParts, value)
    /\ accounts = [a \in {Subject, 2, 3} |-> NoName]
    /\ rels \in {{}, {Row(BLOCKS, Subject, 2, 1, Before, None),
                       Row(MUTES, Subject, 2, 1, Before, None)}}
    /\ log = EmptyBag
    /\ cache = << >>
    /\ \E type \in {BLOCK, MUTE}, until \in Untils :
            \/ tasks = <<new_task("create", 1, type, 3, NoName, until)>>
            \/ until = None /\ tasks = <<new_task("destroy", 1, type, 2, NoName, None)>>
    /\ walks = << >>

NextQuota ==
    \/ \E t \in DOMAIN tasks : create_relationship_begin(t)
    \/ \E t \in DOMAIN tasks, outcome \in CreateOutcomes : create_relationship_call(t, outcome)
    \/ \E t \in DOMAIN tasks : create_relationship_write(t)
    \/ \E t \in DOMAIN tasks : destroy_relationship_begin(t)
    \/ \E t \in DOMAIN tasks, outcome \in DestroyOutcomes : destroy_relationship_call(t, outcome)
    \/ Tick

SpecQuota == InitQuota /\ [][NextQuota]_vars

-----------------------------------------------------------------------------
(* SpecRecon: one walk of the friends listing, queued at StartTime, over a  *)
(* store with earlier FOLLOWS rows                                          *)

InitRecon ==
    /\ clock = StartTime
    /\ applied = NoCall
    /\ twitter = {2, 3, 4, 5}
    /\ users = OneUser(TRUE)
    /\ \E prior \in SUBSET twitter :
            /\ accounts = [a \in {Subject} \cup prior |-> NoName]
            /\ rels = {Row(FOLLOWS, Subject, a, 1, Before, None) : a \in prior}
    /\ log = EmptyBag
    /\ cache = << >>
    /\ tasks = << >>
    /\ \E get_profiles \in BOOLEAN, max_pages \in 0..MaxPagesArg,
          remote \in Listings(twitter, MaxListPages) :
            walks = <<new_walk(1, "friends", get_profiles, max_pages, remote)>>

NextRecon ==
    \/ \E w \in DOMAIN walks, outcome \in WalkOutcomes :
            twitter_paged_call_iterator_fetch(w, outcome)
    \/ \E w \in DOMAIN walks : twitter_paged_call_iterator_handle(w)
    \/ \E w \in DOMAIN walks : twitter_paged_call_iterator_finish(w)
    \/ Tick

SpecRecon == InitRecon /\ [][NextRecon]_vars

-----------------------------------------------------------------------------
(* SpecPage: one walk of the friends or of the block listing that the       *)
(* remote API may rate limit at every page, run again after each delay      *)

\* the rows from before the walk: a FOLLOWS row, or a BLOCKS row with or
\* without `until`, to each of the accounts in prior
PageStores(kind, prior) ==
    IF kind = "friends"
    THEN {{Row(FOLLOWS, Subject, a, 1, Before, None) : a \in prior}}
    ELSE {{Row(BLOCKS, Subject, a, 1, Before, until[a]) : a \in prior} :
                until \in [prior -> {None, UntilLate}]}

InitPage ==
    /\ clock = StartTime
    /\ applied = NoCall
    /\ twitter = {2, 3}
    /\ users = OneUser(TRUE)
    /\ log = EmptyBag
    /\ cache = << >>
    /\ tasks = << >>
    /\ \E kind \in {"friends", "blocks"}, prior \in SUBSET twitter :
            /\ accounts = [a \in {Subject} \cup prior |-> NoName]
            /\ rels \in PageStores(kind, prior)
            /\ \E max_pages \in 0..MaxPagesArg, remote \in Listings(twitter, MaxListPages) :
                    walks = <<new_walk(1, kind, FALSE, max_pages, remote)>>

NextPage ==
    \/ \E w \in DOMAIN walks, outcome \in WalkOutcomes :
            twitter_paged_call_iterator_fetch(w, outcome)
    \/ \E w \in DOMAIN walks : twitter_paged_call_iterator_handle(w)
    \/ \E w \in DOMAIN walks : twitter_paged_call_iterator_finish(w)
    \/ Elapse

SpecPage == InitPage /\ [][NextPage]_vars

-----------------------------------------------------------------------------
(* SpecOverlap: twitter_update_friends is called again for the same         *)
(* principal while the walk of the first call is still under way            *)

\* twitter_update_friends called a second time, later than the first, over
\* the same remote listing
twitter_update_again ==
    /\ UNCHANGED applied
    /\ Len(walks) = 1
    /\ walks[1].now < clock
    /\ walks[1].st \notin {"returned", "raised"}
    /\ walks' = Append(walks, new_walk(walks[1].user, walks[1].kind, walks[1].get_profiles,
                                       started_max_pages(walks[1]), walks[1].remote))
    /\ UNCHANGED <<clock, users, accounts, rels, log, cache, tasks, twitter>>

InitOverlap ==
    /\ clock = StartTime
    /\ applied = NoCall
    /\ twitter = {2, 3}
    /\ users = OneUser(TRUE)
    /\ \E prior \in SUBSET twitter :
            /\ accounts = [a \in {Subject} \cup prior |-> NoName]
            /\ rels = {Row(FOLLOWS, Subject, a, 1, Before, None) : a \in prior}
    /\ log = EmptyBag
    /\ cache = << >>
    /\ tasks = << >>
    /\ \E max_pages \in 0..MaxPagesArg, remote \in Listings(twitter, MaxListPages) :
            walks = <<new_walk(1, "friends", FALSE, max_pages, remote)>>

NextOverlap ==
    \/ twitter_update_again
    \/ \E w \in DOMAIN walks, outcome \in WalkOutcomes :
            twitter_paged_call_iterator_fetch(w, outcome)
    \/ \E w \in DOMAIN walks : twitter_paged_call_iterator_handle(w)
    \/ \E w \in DOMAIN walks : twitter_paged_call_iterator_finish(w)
    \/ Tick

SpecOverlap == InitOverlap /\ [][NextOverlap]_vars

-----------------------------------------------------------------------------
(* SpecSweep: unblock_expired over the stores of two principals, and the    *)
(* destroys it queues                                                       *)

TwoUsers(enabled) ==
    [u \in {1, 2} |-> [is_twitter_api_enabled |-> enabled[u], account |-> u]]

\* the rows the sweep meets: blocks and mutes of the two principals with and
\* without `until`, a FOLLOWS row, and a block by an account of no principal
SweepStores ==
    {b1 \cup m1 \cup b2 \cup b3 \cup f1 :
        b1 \in {{}} \cup {{Row(BLOCKS, 1, 3, 1, Before, until)} :
                            until \in {None, Before, StartTime, UntilLate}},
        m1 \in {{}, {Row(MUTES, 1, 3, 1, Before, Before)}},
        b2 \in {{}, {Row(BLOCKS, 2, 3, 1, Before, Before)}},
        b3 \in {{}, {Row(BLOCKS, 3, 1, 1, Before, Before)}},
        f1 \in {{}, {Row(FOLLOWS, 1, 3, 1, Before, None)}}}

InitSweep ==
    /\ clock = StartTime
    /\ applied = NoCall
    /\ twitter = {1, 2, 3}
    /\ \E enabled \in [{1, 2} -> BOOLEAN] : users = TwoUsers(enabled)
    /\ accounts = [a \in {1, 2, 3} |-> NoName]
    /\ rels \in SweepStores
    /\ log = EmptyBag
    /\ cache = << >>
    /\ tasks = << >>
    /\ walks = << >>

NextSweep ==
    \/ unblock_expired
    \/ \E t \in DOMAIN tasks : destroy_relationship_begin(t)
    \/ \E t \in DOMAIN tasks, outcome \in DestroyOutcomes : destroy_relationship_call(t, outcome)
    \/ Tick

SpecSweep == InitSweep /\ [][NextSweep]_vars

-----------------------------------------------------------------------------
(* SpecExtend: the sweep and its destroy of an expired edge, and a create   *)
(* on the same triple that gives the edge a later `until` or none           *)

InitExtend ==
    /\ clock = StartTime
    /\ applied = NoCall
    /\ twitter = {1, 2, 3}
    /\ users = OneUser(TRUE)
    /\ accounts = [a \in {1, 2, 3} |-> NoName]
    /\ \E type \in {BLOCKS, MUTES} : rels = {Row(type, Subject, 3, 1, Before, Before)}
    /\ log = EmptyBag
    /\ cache = << >>
    /\ tasks = << >>
    /\ walks = << >>

NextExtend ==
    \/ unblock_expired
    \/ \E type \in {BLOCK, MUTE}, until \in {None, UntilLate} :
            create_relationship_delay(1, type, <<3, NoName>>, until)
    \/ \E t \in DOMAIN tasks : create_relationship_begin(t)
    \/ \E t \in DOMAIN tasks, outcome \in CreateOutcomes : create_relationship_call(t, outcome)
    \/ \E t \in DOMAIN tasks : create_relationship_write(t)
    \/ \E t \in DOMAIN tasks : destroy_relationship_begin(t)
    \/ \E t \in DOMAIN tasks, outcome \in DestroyOutcomes : destroy_relationship_call(t, outcome)
    \/ Tick

SpecExtend == InitExtend /\ [][NextExtend]_vars

-----------------------------------------------------------------------------
(* SpecFrame: one destroy of the edge to remote user 2, given by id or by   *)
(* screen name, over a store with rows of other types, objects and subjects *)

\* the screen names the Account table can hold for an account: none (the
\* account is known from an id listing), the name the remote user has, and,
\* for account 3, the name it had when its profile was last fetched, which
\* remote user 2 has taken since
StoredNames(a) ==
    IF a = 3 THEN {NoName, Handle[3], Handle[2]} ELSE {NoName, Handle[a]}

\* the rows that can be in the store: FOLLOWS, BLOCKS and MUTES of the
\* subject to accounts 2 and 3, and a block and a mute of account 2 by
\* account 3
FrameRows ==
    {Row(type, Subject, object, 1, Before, None) :
        type \in {FOLLOWS, BLOCKS, MUTES}, object \in {2, 3}}
    \cup {Row(type, 3, 2, 1, Before, None) : type \in {BLOCKS, MUTES}}

InitFrame ==
    /\ clock = StartTime
    /\ applied = NoCall
    /\ twitter = {2, 3}
    /\ users = OneUser(TRUE)
    /\ \E name2 \in StoredNames(2), name3 \in StoredNames(3) :
            accounts = [a \in {Subject, 2, 3} |->
                            IF a = 2 THEN name2 ELSE IF a = 3 THEN name3 ELSE Handle[a]]
    /\ rels \in SUBSET FrameRows
    /\ log = EmptyBag
    /\ cache = << >>
    /\ \E type \in {BLOCK, MUTE}, sel \in ByIdOrName({2}) :
            tasks = <<new_task("destroy", 1, type, sel[1], sel[2], None)>>
    /\ walks = << >>

NextFrame ==
    \/ \E t \in DOMAIN tasks : destroy_relationship_begin(t)
    \/ \E t \in DOMAIN tasks, outcome \in DestroyOutcomes : destroy_relationship_call(t, outcome)
    \/ Tick

SpecFrame == InitFrame /\ [][NextFrame]_vars

-----------------------------------------------------------------------------
(* SpecSweepFair: the sweep and its destroys when the schedule keeps        *)
(* running the sweep, the workers run the invocations that are due, time    *)
(* passes, and the remote API fails only up to RemoteRecovers               *)

\* the time after which the remote API answers no rate limit and no error
RemoteRecovers == StartTime + 1

\* the stores the run starts from: a block that has expired or expires at
\* UntilLate, and a mute that has expired, of principal 1
FairStores ==
    {b1 \cup m1 :
        b1 \in {{Row(BLOCKS, 1, 3, 1, Before, until)} : until \in {Before, UntilLate}},
        m1 \in {{}, {Row(MUTES, 1, 3, 1, Before, Before)}}}

InitSweepFair ==
    /\ clock = StartTime
    /\ applied = NoCall
    /\ twitter = {1, 2, 3}
    /\ users = TwoUsers([u \in {1, 2} |-> u = 1])
    /\ accounts = [a \in {1, 2, 3} |-> NoName]
    /\ rels \in FairStores
    /\ log = EmptyBag
    /\ cache = << >>
    /\ tasks = << >>
    /\ walks = << >>

NextSweepFair ==
    \/ unblock_expired
    \/ \E t \in DOMAIN tasks : destroy_relationship_begin(t)
    \/ \E t \in DOMAIN tasks, outcome \in DestroyOutcomes :
            /\ outcome \in {"RATE_LIMITED", "ERROR"} => clock <= RemoteRecovers
            /\ destroy_relationship_call(t, outcome)
    \/ Elapse

SpecSweepFair ==
    /\ InitSweepFair
    /\ [][NextSweepFair]_vars
    /\ WF_vars(NextSweepFair)
    /\ WF_vars(unblock_expired)
    /\ WF_vars(\E t \in DOMAIN tasks : destroy_relationship_begin(t))
    /\ WF_vars(\E t \in DOMAIN tasks, outcome \in DestroyOutcomes :
                    /\ outcome \in {"RATE_LIMITED", "ERROR"} => clock <= RemoteRecovers
                    /\ destroy_relationship_call(t, outcome))

-----------------------------------------------------------------------------
(* Properties *)

\* exactly one of user_id and screen_name is given
exactly_one(task) == (task.user_id = None) # (task.screen_name = NoName)

\* the remote user the arguments of an invocation name
target(task) == RemoteUser(task.user_id, task.screen_name)

\* the account of the principal of an invocation
subject_of(task) == users[task.user].account

\* this step is an attempt of invocation t, from its start to its first
\* return, raise, retry or remote call
begins(t) == tasks[t].st = "queued" /\ tasks'[t] # tasks[t]

\* this step is the remote call of invocation t, answered with reply
answered(t, reply) ==
    /\ tasks[t].st = "calling"
    /\ tasks'[t].st # "calling"
    /\ tasks'[t].reply = reply

\* the two invocations were made with the same arguments
same_arguments(a, b) ==
    /\ a.kind = b.kind /\ a.user = b.user /\ a.type = b.type
    /\ a.user_id = b.user_id /\ a.screen_name = b.screen_name /\ a.until = b.until

\* the key of the marker of the operation of an invocation
marker_key(task) ==
    rate_limit_key(task.user, IF task.kind = "create" THEN create_op(task.type)
                              ELSE destroy_op(task.type))

\* C1: when create(S, kind, target, until) has created the edge at its first
\* attempt and a second create with the same arguments then runs, with no
\* other task or walk, the second leaves exactly one edge (S, kind, target)
\* whose expiry is the given one, returns normally and makes no remote call,
\* so that the two have made one remote call at most
C1_SecondCreateLeavesOneEdge ==
    [][\A t1, t2 \in DOMAIN tasks :
        ( /\ t1 # t2 /\ Len(tasks) = 2 /\ Len(walks) = 0
          /\ tasks[t1].kind = "create" /\ same_arguments(tasks[t1], tasks[t2])
          /\ exactly_one(tasks[t1])
          /\ tasks[t1].st = "returned" /\ tasks[t1].why = "created"
          /\ tasks[t1].retries = 0 /\ tasks[t2].retries = 0
          /\ begins(t2) )
        => LET rows == triple_rows(rels', tasks[t1].type, subject_of(tasks[t1]),
                                   target(tasks[t1]))
           IN  /\ Cardinality(rows) = 1
               /\ \A r \in rows : r.until = tasks[t1].until
               /\ tasks'[t2].st = "returned"
               /\ tasks'[t2].calls = 0
               /\ tasks[t1].calls + tasks'[t2].calls <= 1
               /\ log' = log]_vars

C1_Witness ==
    \E t1, t2 \in DOMAIN tasks :
        /\ t1 # t2 /\ same_arguments(tasks[t1], tasks[t2])
        /\ tasks[t1].kind = "create" /\ tasks[t1].until = UntilLate
        /\ tasks[t1].why = "created" /\ tasks[t1].calls = 1
        /\ tasks[t2].why = "exists" /\ tasks[t2].calls = 0
        /\ Cardinality(triple_rows(rels, tasks[t1].type, subject_of(tasks[t1]),
                                   target(tasks[t1]))) = 1

\* C2: at every moment of every interleaving of creates, destroys and walks
\* the store holds at most one row for a (type, subject, object) triple
C2_OneRowPerTriple ==
    \A r1, r2 \in rels :
        (r1.type = r2.type /\ r1.subject = r2.subject /\ r1.object = r2.object)
        => r1 = r2

\* two creates of one edge raced, and the constraint stopped the second
C2_Witness ==
    /\ \E t \in DOMAIN tasks : tasks[t].st = "raised" /\ tasks[t].why = "IntegrityError"
    /\ rels # {}

\* S has a FOLLOWS edge to the target of the invocation
subject_follows_target(task) ==
    \E r \in rels : /\ r.type = FOLLOWS
                    /\ r.subject = subject_of(task)
                    /\ r.object = target(task)

\* the triples the store holds
triples(R) == {<<r.type, r.subject, r.object>> : r \in R}

\* C5: an attempt of create(S, MUTE or BLOCK, target), the target given by
\* exactly one of user_id and screen_name, while S has a FOLLOWS edge to the
\* target and no edge of the requested type: no remote call is made, no row
\* is created or changed, no audit entry is written, and the invocation
\* returns normally
C5_FollowedTargetIsSkipped ==
    [][\A t \in DOMAIN tasks :
        ( /\ begins(t)
          /\ tasks[t].kind = "create" /\ tasks[t].type \in {BLOCK, MUTE}
          /\ exactly_one(tasks[t])
          /\ subject_follows_target(tasks[t])
          /\ triple_rows(rels, tasks[t].type, subject_of(tasks[t]), target(tasks[t])) = {} )
        => /\ tasks'[t].st = "returned"
           /\ tasks'[t].calls = tasks[t].calls
           /\ rels' = rels
           /\ log' = log]_vars

\* a create by screen name has made the remote call and written the edge to
\* a target that S follows
C5_Witness ==
    \E t \in DOMAIN tasks :
        /\ tasks[t].kind = "create" /\ tasks[t].why = "created" /\ tasks[t].calls = 1
        /\ tasks[t].screen_name # NoName /\ tasks[t].user_id = None
        /\ subject_follows_target(tasks[t])
        /\ triple_rows(rels, tasks[t].type, subject_of(tasks[t]), target(tasks[t])) # {}

marker_in_effect(task) ==
    /\ marker_key(task) \in DOMAIN cache
    /\ clock < cache[marker_key(task)].expires

\* the seconds from now to the time the marker holds
marker_remaining(task) == cache[marker_key(task)].value - clock

\* the attempt of the invocation gets as far as the check of the marker
reaches_marker_check(task) ==
    /\ exactly_one(task)
    /\ users[task.user].is_twitter_api_enabled
    /\ IF task.kind = "create"
       THEN /\ existing_qs(rels, subject_of(task), task.type, task.user_id,
                           task.screen_name) = {}
            /\ ~follows(subject_of(task), task.user_id, task.screen_name)
       ELSE existing_qs(rels, subject_of(task), task.type, task.user_id,
                        task.screen_name) # {}

\* C8: the remote call of an attempt of create is answered RATE_LIMITED: the
\* marker of the principal and the operation is set to 15 minutes after the
\* start of the attempt, with a lifetime of 15 minutes, no row is created,
\* and, while fewer than 15 retries have been made, the invocation is queued
\* again with a delay of at least the time the marker has left; at the 15th
\* retry it fails instead with MaxRetriesExceededError
C8_RateLimitedCreate ==
    [][\A t \in DOMAIN tasks :
        (tasks[t].kind = "create" /\ answered(t, "RATE_LIMITED"))
        => /\ marker_key(tasks[t]) \in DOMAIN cache'
           /\ cache'[marker_key(tasks[t])] =
                [value |-> tasks[t].now + Window, expires |-> clock + Window]
           /\ rels' = rels /\ accounts' = accounts /\ log' = log
           /\ IF tasks[t].retries < MaxRetries
              THEN /\ tasks'[t].st = "queued"
                   /\ tasks'[t].retries = tasks[t].retries + 1
                   /\ tasks'[t].eta - clock >= cache'[marker_key(tasks[t])].value - clock
              ELSE /\ tasks'[t].st = "raised"
                   /\ tasks'[t].why = "MaxRetriesExceededError"]_vars

\* C8 as stated, for every attempt number: the invocation is queued again
C8_RateLimitedCreateAlwaysRequeued ==
    [][\A t \in DOMAIN tasks :
        (tasks[t].kind = "create" /\ answered(t, "RATE_LIMITED"))
        => /\ marker_key(tasks[t]) \in DOMAIN cache'
           /\ rels' = rels
           /\ tasks'[t].st = "queued"
           /\ tasks'[t].eta - clock >= cache'[marker_key(tasks[t])].value - clock]_vars

\* a create is queued again after its third rate-limited call, the marker set
C8_Witness ==
    \E t \in DOMAIN tasks :
        /\ tasks[t].kind = "create" /\ tasks[t].reply = "RATE_LIMITED"
        /\ tasks[t].st = "queued" /\ tasks[t].retries = 3 /\ tasks[t].calls = 3
        /\ tasks[t].eta > clock
        /\ marker_in_effect(tasks[t])
        /\ triple_rows(rels, tasks[t].type, subject_of(tasks[t]), target(tasks[t])) = {}

\* C9: an attempt of create or destroy that reaches the check of the marker
\* while the marker is in effect makes no remote call and changes nothing in
\* the store, the audit trail or the cache; while fewer than 15 retries have
\* been made it is queued again with a delay of at least the time the marker
\* has left (plus 5 seconds for a create); at the 15th retry it fails instead
\* with MaxRetriesExceededError
C9_MarkerDefersAttempt ==
    [][\A t \in DOMAIN tasks :
        ( /\ begins(t)
          /\ reaches_marker_check(tasks[t])
          /\ marker_in_effect(tasks[t]) )
        => /\ tasks'[t].calls = tasks[t].calls
           /\ tasks'[t].st # "calling"
           /\ rels' = rels /\ accounts' = accounts /\ log' = log /\ cache' = cache
           /\ IF tasks[t].retries < MaxRetries
              THEN /\ tasks'[t].st = "queued"
                   /\ tasks'[t].retries = tasks[t].retries + 1
                   /\ tasks'[t].eta - clock >=
                        marker_remaining(tasks[t])
                        + (IF tasks[t].kind = "create" THEN CreateSlack ELSE 0)
              ELSE /\ tasks'[t].st = "raised"
                   /\ tasks'[t].why = "MaxRetriesExceededError"]_vars

\* C9 as stated: the attempt is always queued again
C9_MarkerAlwaysRequeues ==
    [][\A t \in DOMAIN tasks :
        ( /\ begins(t)
          /\ reaches_marker_check(tasks[t])
          /\ marker_in_effect(tasks[t]) )
        => /\ tasks'[t].calls = tasks[t].calls
           /\ rels' = rels /\ accounts' = accounts /\ log' = log
           /\ tasks'[t].st = "queued"
           /\ tasks'[t].eta - clock >= marker_remaining(tasks[t])]_vars

\* a destroy was put off by the marker, without a call, the edge still there
C9_Witness ==
    \E t \in DOMAIN tasks :
        /\ tasks[t].kind = "destroy" /\ tasks[t].st = "queued" /\ tasks[t].why = "retry"
        /\ tasks[t].retries = 1 /\ tasks[t].calls = 0
        /\ marker_in_effect(tasks[t])
        /\ tasks[t].eta - clock >= marker_remaining(tasks[t])
        /\ triple_rows(rels, tasks[t].type, subject_of(tasks[t]), target(tasks[t])) # {}

\* C10: an attempt of create or destroy that is given not exactly one of
\* user_id and screen_name fails with an invalid-argument error, before any
\* remote call and any local change
C10_ArgumentsAreValidated ==
    [][\A t \in DOMAIN tasks :
        (begins(t) /\ ~exactly_one(tasks[t]))
        => /\ tasks'[t].st = "raised"
           /\ tasks'[t].why \in {"ValueError", "AssertionError"}
           /\ tasks'[t].calls = tasks[t].calls
           /\ rels' = rels /\ accounts' = accounts /\ log' = log /\ cache' = cache]_vars

\* the users of all the pages of a remote listing
listed(remote) == UNION {remote[i] : i \in DOMAIN remote}

\* the accounts S has a FOLLOWS edge to
followed(R, S) == {r.object : r \in {x \in R : x.type = FOLLOWS /\ x.subject = S}}

\* the walk is the only invocation there has been
only_walk(w) == Len(walks) = 1 /\ Len(tasks) = 0 /\ w = 1

\* C3: when a walk of the friends listing of S has run to its finish, with
\* no other invocation, the FOLLOWS edges of S are those to the users the
\* listing held: an edge from before to a user not listed is removed, an edge
\* to a new user is created, and every edge carries the timestamp of the run
C3_FinishedWalkReconciles ==
    \A w \in DOMAIN walks :
        ( /\ only_walk(w)
          /\ walks[w].kind = "friends"
          /\ walks[w].st = "returned" /\ walks[w].finishes = 1 )
        => /\ followed(rels, walks[w].account) = listed(walks[w].remote)
           /\ \A r \in rels : r.updated = walks[w].now
           /\ \A a \in followed(walks[w].before, walks[w].account) \ listed(walks[w].remote) :
                triple_rows(rels, FOLLOWS, walks[w].account, a) = {}
           /\ \A a \in listed(walks[w].remote) :
                Cardinality(triple_rows(rels, FOLLOWS, walks[w].account, a)) = 1

\* from edges to {2, 3, 4} the walk of a listing of {3, 4, 5} has left the
\* edges to {3, 4, 5}
C3_Witness ==
    \E w \in DOMAIN walks :
        /\ walks[w].st = "returned" /\ walks[w].finishes = 1
        /\ followed(walks[w].before, walks[w].account) = {2, 3, 4}
        /\ listed(walks[w].remote) = {3, 4, 5}
        /\ followed(rels, walks[w].account) = {3, 4, 5}

\* C4: a walk that has stopped before the last page of the remote listing
\* has run no finish step, and, with no other invocation, every edge from
\* before the walk is still in the store, with the edges to the users of the
\* pages it handled
C4_TruncatedWalkRemovesNothing ==
    \A w \in DOMAIN walks :
        ( /\ walks[w].st \in {"returned", "raised"}
          /\ walks[w].pages < Len(walks[w].remote) )
        => /\ walks[w].finishes = 0
           /\ only_walk(w) =>
                /\ triples(walks[w].before) \subseteq triples(rels)
                /\ walks[w].seen \subseteq followed(rels, walks[w].account)
                /\ followed(rels, walks[w].account) =
                     followed(walks[w].before, walks[w].account) \cup walks[w].seen

\* the walk was cut off by max_pages after the first of two pages, and an
\* edge to a user who is on neither page is still there
C4_Witness ==
    \E w \in DOMAIN walks :
        /\ walks[w].st = "returned" /\ walks[w].why = "truncated"
        /\ walks[w].pages = 1 /\ Len(walks[w].remote) = 2
        /\ \E a \in followed(rels, walks[w].account) :
                a \notin listed(walks[w].remote)
        /\ walks[w].seen # {}

\* a destroy that was given both user_id and screen_name has made the remote
\* call and removed the edge
C10_Witness ==
    \E t \in DOMAIN tasks :
        /\ tasks[t].kind = "destroy"
        /\ tasks[t].user_id # None /\ tasks[t].screen_name # NoName
        /\ tasks[t].st = "returned" /\ tasks[t].why = "destroyed" /\ tasks[t].calls = 1

\* this step is the remote call of an invocation of walk w, answered with reply
fetched(w, reply) ==
    /\ walks[w].st = "queued"
    /\ walks'[w] # walks[w]
    /\ walks'[w].reply = reply

\* C11: the remote call of a create, a destroy or a page fetch fails with an
\* error that is not classified: the invocation ends with the exception, no
\* retry is made, and the attempt creates, changes and deletes no row (nor
\* account, audit entry or marker)
C11_UnclassifiedErrorIsFatal ==
    [][/\ \A t \in DOMAIN tasks :
            answered(t, "ERROR")
            => /\ tasks'[t].st = "raised" /\ tasks'[t].why = "TwitterError"
               /\ tasks'[t].retries = tasks[t].retries
               /\ rels' = rels /\ accounts' = accounts /\ log' = log /\ cache' = cache
       /\ \A w \in DOMAIN walks :
            fetched(w, "ERROR")
            => /\ walks'[w].st = "raised" /\ walks'[w].why = "TwitterError"
               /\ walks'[w].retries = walks[w].retries
               /\ walks'[w].finishes = walks[w].finishes
               /\ rels' = rels /\ accounts' = accounts /\ log' = log /\ cache' = cache]_vars

\* a destroy has failed on an unclassified error, its edge still in the
\* store, and a walk has failed on one at its second page
C11_Witness ==
    /\ \E t \in DOMAIN tasks :
            /\ tasks[t].kind = "destroy" /\ tasks[t].reply = "ERROR"
            /\ tasks[t].st = "raised" /\ tasks[t].why = "TwitterError"
            /\ triple_rows(rels, tasks[t].type, subject_of(tasks[t]), target(tasks[t])) # {}
    /\ \E w \in DOMAIN walks :
            /\ walks[w].reply = "ERROR" /\ walks[w].st = "raised"
            /\ walks[w].pages = 1

\* this step adds one entry of the principal to the audit trail
audit_entry_written(user) ==
    /\ BagCardinality(log') = BagCardinality(log) + 1
    /\ \E e \in BagToSet(log') :
            /\ e.user = user
            /\ CopiesIn(e, log') = CopiesIn(e, log) + 1

\* C12: every attempt of a create or a destroy that ends with a successful
\* remote mutation, and every attempt that ends in a fatal failure (an
\* unclassified remote error, or the retries used up), adds an entry of the
\* principal to the audit trail
C12_OutcomesAreAudited ==
    [][\A t \in DOMAIN tasks :
        ( /\ tasks[t].st \in {"queued", "calling", "writing"}
          /\ \/ /\ tasks'[t].st = "returned"
                /\ tasks'[t].why \in {"created", "destroyed"}
             \/ /\ tasks'[t].st = "raised"
                /\ tasks'[t].why \in {"TwitterError", "MaxRetriesExceededError"} )
        => audit_entry_written(tasks[t].user)]_vars

\* an invocation has failed for good, on an unclassified error or with its
\* retries used up, and the audit trail is empty
C12_Witness ==
    \E t \in DOMAIN tasks :
        /\ tasks[t].st = "raised"
        /\ tasks[t].why \in {"TwitterError", "MaxRetriesExceededError"}
        /\ tasks[t].calls = 1
        /\ log = EmptyBag

\* the (principal, type, target) of the edges that are due for removal at
\* time now: blocks and mutes whose `until` is set and earlier than now, of
\* the account of a principal with the API enabled
due_for_removal(now) ==
    {<<u, r.type, r.object>> : <<u, r>> \in
        {<<v, x>> \in (DOMAIN users) \X rels :
            /\ x.type = BLOCKS \/ x.type = MUTES
            /\ x.until # None
            /\ x.until < now
            /\ users[v].is_twitter_api_enabled
            /\ users[v].account = x.subject}}

\* the invocations this step has added to the queue
queued_by_step == {tasks'[i] : i \in (Len(tasks) + 1)..Len(tasks')}

\* C13: a run of the expiry sweep queues one destroy, by user_id and with a
\* delay of 1 to 900 seconds, for each edge that is a block or a mute with
\* `until` set and earlier than now and whose subject is the account of a
\* principal with the API enabled, and for no other edge; the sweep deletes
\* and changes no row
C13_SweepQueuesExpiredEdges ==
    [][Len(tasks') > Len(tasks)
        => /\ {<<task.user, task.type, task.user_id>> : task \in queued_by_step}
                = due_for_removal(clock)
           /\ Len(tasks') - Len(tasks) = Cardinality(due_for_removal(clock))
           /\ \A task \in queued_by_step :
                /\ task.kind = "destroy" /\ task.screen_name = NoName
                /\ task.st = "queued" /\ task.retries = 0
                /\ task.eta - clock \in 1..900
           /\ SubSeq(tasks', 1, Len(tasks)) = tasks
           /\ rels' = rels /\ accounts' = accounts /\ log' = log /\ cache' = cache]_vars

\* the sweep has queued the destroys of the two expired edges of principal 1
\* and none for the expired block of principal 2, whose API is disabled, nor
\* for the block of an account that is no principal's
C13_Witness ==
    /\ clock = StartTime
    /\ Len(tasks) = 2
    /\ \A t \in DOMAIN tasks : tasks[t].st = "queued" /\ tasks[t].user = 1
    /\ \E r \in rels : r.subject = 3 /\ r.type = BLOCKS /\ r.until = Before
    /\ \E r \in rels : r.subject = 2 /\ r.type = BLOCKS /\ r.until = Before
    /\ \E t1, t2 \in DOMAIN tasks : tasks[t1].type = BLOCK /\ tasks[t2].type = MUTE
    /\ Cardinality(rels) = 5

\* the rows a store of the fair sweep's family can hold
SweepRows == UNION FairStores

\* the row is a block or a mute of the account of a principal with the API
\* enabled, and its `until` is set and in the past
expired_edge(r) ==
    /\ r \in rels
    /\ r.type \in {BLOCKS, MUTES}
    /\ r.until # None /\ r.until < clock
    /\ \E u \in DOMAIN users : users[u].is_twitter_api_enabled /\ users[u].account = r.subject

\* C14: when the sweep keeps running, the invocations that are due are run
\* and the remote API comes to accept the calls, every block or mute of a
\* principal with the API enabled whose `until` is in the past is removed
\* from the store in the end, also when sweeps queue a second destroy of an
\* edge before the first has ended
C14_ExpiredEdgesAreRemoved ==
    \A r \in SweepRows : expired_edge(r) ~> (r \notin rels)

\* two destroys of one edge were queued, the first removed it after a rate
\* limit and the second found nothing to do
C14_Witness ==
    \E t1, t2 \in DOMAIN tasks :
        /\ t1 # t2
        /\ tasks[t1].user = tasks[t2].user /\ tasks[t1].type = tasks[t2].type
        /\ tasks[t1].user_id = tasks[t2].user_id
        /\ tasks[t1].why = "destroyed" /\ tasks[t1].retries = 1
        /\ tasks[t2].why = "absent"
        /\ \A r \in rels : ~expired_edge(r)

\* this step is an attempt of invocation t that ends rate limited: its remote
\* call is answered RATE_LIMITED, or it finds the marker in effect
rate_limited_attempt(t) ==
    \/ answered(t, "RATE_LIMITED")
    \/ begins(t) /\ reaches_marker_check(tasks[t]) /\ marker_in_effect(tasks[t])

\* C15: an invocation of create or destroy is never run again more than 15
\* times, whatever max_retries option it was queued with: each rate-limited
\* attempt before the 15th retry queues it again with one retry more, and the
\* rate-limited attempt at the 15th retry ends it with MaxRetriesExceededError
C15_RetriesAreBounded ==
    [][\A t \in DOMAIN tasks :
        /\ tasks'[t].retries <= 15
        /\ tasks'[t].retries >= tasks[t].retries
        /\ rate_limited_attempt(t)
            => IF tasks[t].retries < 15
               THEN tasks'[t].st = "queued" /\ tasks'[t].retries = tasks[t].retries + 1
               ELSE /\ tasks'[t].st = "raised"
                    /\ tasks'[t].why = "MaxRetriesExceededError"
                    /\ tasks'[t].retries = 15]_vars

\* a create that _block_multiple queued has failed for good at its 15th
\* retry, after attempts stopped by the remote signal and by the marker
C15_Witness ==
    \E t \in DOMAIN tasks :
        /\ tasks[t].kind = "create" /\ tasks[t].max_retries = BlockMultipleMaxRetries
        /\ tasks[t].st = "raised" /\ tasks[t].why = "MaxRetriesExceededError"
        /\ tasks[t].retries = 15
        /\ tasks[t].calls >= 1 /\ tasks[t].calls < 16

\* max_slot of the claim: min(2^retry_count - 1, UPPER_BOUND_SLOTS)
max_slot_of(retry_count) == Min(Pow2(retry_count) - 1, 92)

\* C16: for every base and every number of retries, the timeout returned is
\* at least the base and less than the base plus (max_slot + 1) windows of
\* 900 seconds
C16_DelayWithinBounds ==
    (applied.f = "_twitter_retry_timeout" /\ applied.st = "returned")
        => /\ applied.base <= applied.timeout
           /\ applied.timeout < applied.base + (max_slot_of(applied.retries) + 1) * 900

\* the timeout returned is the base plus (max_slot + 1) windows: the last
\* second randint can draw in the last slot
C16_Witness ==
    /\ applied.f = "_twitter_retry_timeout" /\ applied.st = "returned"
    /\ applied.retries = 3 /\ applied.base = 5
    /\ applied.timeout = 5 + 8 * 900

\* the parts available in the bucket of the user row at the time now:
\* min(max, value + rate * (now - time))
available(user, now) ==
    IF user.token_bucket_value + user.token_bucket_rate * (now - user.token_bucket_time)
            < user.token_bucket_max
    THEN user.token_bucket_value + user.token_bucket_rate * (now - user.token_bucket_time)
    ELSE user.token_bucket_max

\* this step is a withdrawal of the user u
withdraws(u) ==
    /\ applied' # applied
    /\ applied'.f = "withdraw_tokens" /\ applied'.user = u

\* C17: a withdrawal of an amount at the time now succeeds exactly when the
\* amount is at most what the bucket holds at now; when it succeeds the bucket
\* holds at now what it held less the amount, and when it fails the bucket is
\* as it was
C17_WithdrawIsAllOrNothing ==
    [][\A u \in DOMAIN users :
        withdraws(u)
        => /\ applied'.st = "returned"
                <=> applied'.value * TokenParts <= available(users[u], clock)
           /\ applied'.st = "returned"
                => available(users'[u], clock)
                        = available(users[u], clock) - applied'.value * TokenParts
           /\ applied'.st # "returned"
                => applied'.st = "raised" /\ users'[u] = users[u]]_vars

\* a withdrawal of two tokens has succeeded on a bucket that the refill had
\* filled to its capacity, and left the capacity less two tokens
C17_Witness ==
    /\ applied.f = "withdraw_tokens" /\ applied.st = "returned" /\ applied.value = 2
    /\ clock > StartTime
    /\ users[1].token_bucket_time = clock
    /\ users[1].token_bucket_rate > 0
    /\ users[1].token_bucket_value = users[1].token_bucket_max - 2 * TokenParts

\* C18: a create or a destroy makes its remote call only when the token
\* bucket of the principal holds a token at that time, and the attempt that
\* makes the call has withdrawn it
C18_QuotaIsCheckedBeforeCall ==
    [][\A t \in DOMAIN tasks :
        tasks'[t].calls > tasks[t].calls
        => /\ available(users[tasks[t].user], clock) >= TokenParts
           /\ available(users'[tasks[t].user], clock)
                <= available(users[tasks[t].user], clock) - TokenParts]_vars

\* a create has made its remote call and written its edge for a principal
\* whose bucket is empty and is not refilled
C18_Witness ==
    \E t \in DOMAIN tasks :
        /\ tasks[t].kind = "create" /\ tasks[t].calls = 1
        /\ tasks[t].st = "returned" /\ tasks[t].why = "created"
        /\ available(users[tasks[t].user], clock) = 0
        /\ triple_rows(rels, tasks[t].type, subject_of(tasks[t]), target(tasks[t])) # {}

\* the edge of the requested type from the principal of an invocation to the
\* target its arguments name
edge_of(R, task) == triple_rows(R, task.type, subject_of(task), target(task))

\* C19: an attempt of create for a principal with the API enabled, on a
\* triple that has an edge of the requested type, sets the `until` of the
\* edge to the given value, be it earlier than the stored one or absent,
\* leaves every other row and field as it was, and returns without a remote
\* call
C19_ExistingEdgeTakesGivenUntil ==
    [][\A t \in DOMAIN tasks :
        ( /\ tasks[t].kind = "create" /\ begins(t)
          /\ exactly_one(tasks[t])
          /\ users[tasks[t].user].is_twitter_api_enabled
          /\ edge_of(rels, tasks[t]) # {} )
        => /\ rels' = {IF r \in edge_of(rels, tasks[t])
                       THEN [r EXCEPT !.until = tasks[t].until] ELSE r : r \in rels}
           /\ tasks'[t].st = "returned"
           /\ tasks'[t].calls = tasks[t].calls]_vars

\* a create that names its target by screen name has made the remote call
\* although the edge was there: the account of the target had no screen name
\* stored
C19_Witness ==
    \E t \in DOMAIN tasks :
        /\ tasks[t].kind = "create" /\ tasks[t].user_id = None
        /\ tasks[t].retries = 0 /\ tasks[t].calls = 1 /\ tasks[t].reply = "ok"
        /\ accounts[target(tasks[t])] = NoName
        /\ \E r \in edge_of(rels, tasks[t]) : r.updated = Before

\* the two invocations are creates of one edge with different `until`
racing_creates(a, b) ==
    /\ a.kind = "create" /\ b.kind = "create"
    /\ a.user = b.user /\ a.type = b.type /\ target(a) = target(b)
    /\ a.until # b.until

\* C20: of two creates of one edge with different `until` that both passed
\* the check for an existing edge and both had their remote call accepted,
\* the one that writes last leaves exactly one row for the triple, with its
\* own `until`
C20_LastCreateWins ==
    [][\A t1, t2 \in DOMAIN tasks :
        ( /\ t1 # t2 /\ racing_creates(tasks[t1], tasks[t2])
          /\ tasks[t1].st \in {"returned", "raised"}
          /\ tasks[t1].calls = 1 /\ tasks[t1].reply = "ok"
          /\ tasks[t2].st = "writing" /\ tasks'[t2].st # "writing" )
        => /\ Cardinality(edge_of(rels', tasks[t2])) = 1
           /\ \A r \in edge_of(rels', tasks[t2]) : r.until = tasks[t2].until]_vars

\* both creates called the remote API; the first wrote the row and the second
\* failed on the uniqueness of the triple, so the row has the `until` of the
\* first
C20_Witness ==
    \E t1, t2 \in DOMAIN tasks :
        /\ t1 # t2 /\ racing_creates(tasks[t1], tasks[t2])
        /\ tasks[t1].calls = 1 /\ tasks[t2].calls = 1
        /\ tasks[t1].st = "returned" /\ tasks[t1].why = "created"
        /\ tasks[t2].st = "raised" /\ tasks[t2].why = "IntegrityError"
        /\ Cardinality(edge_of(rels, tasks[t2])) = 1
        /\ \A r \in edge_of(rels, tasks[t2]) : r.until = tasks[t1].until

\* the two invocations are destroys of one edge
duplicate_destroys(a, b) ==
    /\ a.kind = "destroy" /\ b.kind = "destroy"
    /\ a.user = b.user /\ a.type = b.type
    /\ a.user_id = b.user_id /\ a.screen_name = b.screen_name

\* the invocation has ended
finished(task) == task.st \in {"returned", "raised"}

\* C21: of two destroys of one edge, queued twice, one that starts when the
\* edge is gone from the store returns without a remote call; and when both
\* have ended, with no unclassified error from the remote API, the edge is
\* gone and both have returned normally
C21_DuplicateDestroyIsHarmless ==
    [][\A t1, t2 \in DOMAIN tasks :
        (t1 # t2 /\ duplicate_destroys(tasks[t1], tasks[t2]))
        => /\ (begins(t1) /\ exactly_one(tasks[t1]) /\ edge_of(rels, tasks[t1]) = {})
                => /\ tasks'[t1].st = "returned"
                   /\ tasks'[t1].calls = tasks[t1].calls
           /\ ( /\ finished(tasks'[t1]) /\ finished(tasks'[t2])
                /\ tasks'[t1].reply # "ERROR" /\ tasks'[t2].reply # "ERROR" )
                => /\ edge_of(rels', tasks[t1]) = {}
                   /\ tasks'[t1].st = "returned" /\ tasks'[t2].st = "returned"]_vars

\* two destroys of one edge were both answered that the page is gone: the
\* first deleted the account with its edges and the second failed on the
\* edge it no longer finds
C21_Witness ==
    \E t1, t2 \in DOMAIN tasks :
        /\ t1 # t2 /\ duplicate_destroys(tasks[t1], tasks[t2])
        /\ tasks[t1].st = "returned" /\ tasks[t1].why = "page gone"
        /\ tasks[t2].st = "raised" /\ tasks[t2].why = "DoesNotExist"
        /\ tasks[t2].calls = 1 /\ tasks[t2].reply = "PAGE_GONE"
        /\ edge_of(rels, tasks[t2]) = {}

\* C22: the remote call of a page attempt is answered RATE_LIMITED: the
\* attempt writes no row and no account, runs no finish handler and queues no
\* next page; while fewer than 3 retries have been made the invocation is
\* queued again with the same cursor, max_pages and page number and one retry
\* more, and at the 3rd retry it fails instead with MaxRetriesExceededError
C22_RateLimitedPageIsRetried ==
    [][\A w \in DOMAIN walks :
        fetched(w, "RATE_LIMITED")
        => /\ rels' = rels /\ accounts' = accounts /\ log' = log
           /\ walks'[w].pages = walks[w].pages
           /\ walks'[w].finishes = walks[w].finishes
           /\ walks'[w].cursor = walks[w].cursor
           /\ walks'[w].max_pages = walks[w].max_pages
           /\ walks'[w].current_page = walks[w].current_page
           /\ IF walks[w].retries < WalkMaxRetries
              THEN /\ walks'[w].st = "queued"
                   /\ walks'[w].retries = walks[w].retries + 1
                   /\ walks'[w].eta >= clock + 900
              ELSE /\ walks'[w].st = "raised"
                   /\ walks'[w].why = "MaxRetriesExceededError"]_vars

\* C22 as stated: the rate-limited attempt is always queued again
C22_RateLimitedPageAlwaysRequeued ==
    [][\A w \in DOMAIN walks :
        fetched(w, "RATE_LIMITED")
        => /\ rels' = rels /\ accounts' = accounts
           /\ walks'[w].pages = walks[w].pages
           /\ walks'[w].finishes = walks[w].finishes
           /\ walks'[w].st = "queued"
           /\ walks'[w].cursor = walks[w].cursor
           /\ walks'[w].max_pages = walks[w].max_pages]_vars

\* the second page of a walk is queued again after a rate limit, with the
\* cursor and max_pages it had, the first page handled and nothing finished
C22_Witness ==
    \E w \in DOMAIN walks :
        /\ walks[w].st = "queued" /\ walks[w].reply = "RATE_LIMITED"
        /\ walks[w].retries = 2 /\ walks[w].eta > clock
        /\ walks[w].cursor = 2 /\ walks[w].max_pages = 0 /\ walks[w].current_page = 2
        /\ walks[w].pages = 1 /\ walks[w].finishes = 0

\* C23: a walk started with max_pages = N has handled at most N pages, and
\* over a remote listing of more than N pages it runs no finish handler
C23_WalkFetchesAtMostMaxPages ==
    \A w \in DOMAIN walks :
        /\ walks[w].pages <= started_max_pages(walks[w])
        /\ Len(walks[w].remote) > started_max_pages(walks[w])
           => walks[w].finishes = 0

\* a walk started with max_pages = 1 has fetched and handled both pages of a
\* listing of two pages and has run its finish handler
C23_Witness ==
    \E w \in DOMAIN walks :
        /\ started_max_pages(walks[w]) = 1
        /\ Len(walks[w].remote) = 2
        /\ walks[w].pages = 2
        /\ walks[w].st = "returned" /\ walks[w].finishes = 1

\* C24: the attempt of a create whose remote call is answered RATE_LIMITED
\* adds exactly one "Rate limited" entry of the principal to the audit trail,
\* and the attempt that the marker in the cache defers adds none
C24_BackoffIsAuditedOnce ==
    [][\A t \in DOMAIN tasks :
        tasks[t].kind = "create"
        => /\ answered(t, "RATE_LIMITED")
                => /\ audit_entry_written(tasks[t].user)
                   /\ \E e \in BagToSet(log') :
                        /\ e.message = <<"Rate limited">>
                        /\ CopiesIn(e, log') = CopiesIn(e, log) + 1
           /\ ( /\ begins(t)
                /\ reaches_marker_check(tasks[t])
                /\ marker_in_effect(tasks[t]) )
                => log' = log]_vars

\* a create was answered RATE_LIMITED, has set the marker and is queued
\* again, and the audit trail is empty
C24_Witness ==
    \E t \in DOMAIN tasks :
        /\ tasks[t].kind = "create"
        /\ tasks[t].st = "queued" /\ tasks[t].why = "retry"
        /\ tasks[t].reply = "RATE_LIMITED" /\ tasks[t].calls = 1
        /\ marker_in_effect(tasks[t])
        /\ log = EmptyBag

\* C25: a step that writes the marker of a key while the marker is in effect
\* leaves a rate-limited-until time that is no earlier than the one it
\* replaces
C25_MarkerOnlyExtends ==
    [][\A key \in DOMAIN cache :
        ( /\ clock < cache[key].expires
          /\ key \in DOMAIN cache'
          /\ cache'[key] # cache[key] )
        => cache'[key].value >= cache[key].value]_vars

\* two invocations of one key were both answered RATE_LIMITED, and the marker
\* holds the time written by the one that started earlier, which is before
\* the time the other had written
C25_Witness ==
    \E t1, t2 \in DOMAIN tasks :
        /\ t1 # t2 /\ marker_key(tasks[t1]) = marker_key(tasks[t2])
        /\ tasks[t1].reply = "RATE_LIMITED" /\ tasks[t1].st = "queued"
        /\ tasks[t2].reply = "RATE_LIMITED" /\ tasks[t2].st = "queued"
        /\ tasks[t1].now < tasks[t2].now
        /\ marker_in_effect(tasks[t1])
        /\ cache[marker_key(tasks[t1])].value = tasks[t1].now + Window
        /\ cache[marker_key(tasks[t1])].expires = tasks[t2].now + Window

\* the stored token value of every principal is within 0..max
stored_value_in_range ==
    \A u \in DOMAIN users :
        /\ users[u].token_bucket_value >= 0
        /\ users[u].token_bucket_value <= users[u].token_bucket_max

\* this step is the withdraw_tokens call of withdrawal t
checks(t) == tasks[t].kind = "withdraw" /\ tasks[t].st = "read" /\ tasks'[t].st # "read"

overlapping_runs_finished(w1, w2) ==
    /\ w1 # w2
    /\ walks[w1].kind = walks[w2].kind /\ walks[w1].account = walks[w2].account
    /\ walks[w1].remote = walks[w2].remote
    /\ walks[w1].now < walks[w2].now
    /\ walks[w1].st = "returned" /\ walks[w1].finishes = 1
    /\ walks[w2].st = "returned" /\ walks[w2].finishes = 1

\* C27: when two runs of the reconciliation of the friends of S, started at
\* different times over the same remote listing, have both run to their
\* finish, the FOLLOWS edges of S are those to the users the listing holds
C27_OverlappingRunsLoseNoEdge ==
    \A w1, w2 \in DOMAIN walks :
        overlapping_runs_finished(w1, w2)
        => followed(rels, walks[w1].account) = listed(walks[w1].remote)

\* both runs have finished and an edge to a listed user is gone: the page
\* handler of the run that started first has set `updated` back after the
\* other's, and the finish handler of the later run has removed the edge
C27_Witness ==
    \E w1, w2 \in DOMAIN walks :
        /\ overlapping_runs_finished(w1, w2)
        /\ \E a \in listed(walks[w1].remote) : a \notin followed(rels, walks[w1].account)

\* the invocation is a destroy that unblock_expired has queued
expiry_driven(task) == task.kind = "destroy" /\ task.max_retries = SweepMaxRetries

\* C28: whenever a destroy that the sweep has queued gets the remote API to
\* undo the relationship and deletes the edge, the edge has an `until` that
\* is earlier than that moment
C28_DestroyOnlyWhileExpired ==
    [][\A t \in DOMAIN tasks :
        ( /\ expiry_driven(tasks[t])
          /\ tasks[t].st = "calling"
          /\ tasks'[t].st = "returned" /\ tasks'[t].why = "destroyed" )
        => \A r \in edge_of(rels, tasks[t]) : r.until # None /\ r.until < clock]_vars

\* after the sweep had queued the destroy of the expired edge, a create gave
\* the edge an `until` that is still ahead, and the destroy has then undone
\* the relationship and deleted the edge
C28_Witness ==
    \E d, c \in DOMAIN tasks :
        /\ expiry_driven(tasks[d])
        /\ tasks[d].st = "returned" /\ tasks[d].why = "destroyed"
        /\ tasks[c].kind = "create" /\ tasks[c].type = tasks[d].type
        /\ tasks[c].st = "returned" /\ tasks[c].why = "exists"
        /\ tasks[c].until = UntilLate /\ clock < UntilLate
        /\ edge_of(rels, tasks[d]) = {}

\* this step runs the finish handlers of walk w
finishes_now(w) == walks'[w].finishes = walks[w].finishes + 1

\* this step queues the next page of walk w
queues_next_page(w) == walks'[w].current_page = walks[w].current_page + 1

\* C29: the finish handlers of a walk run at most once, in the invocation
\* whose response had no next cursor, after the page handlers of every page
\* up to and including that one have run over all the accounts of the
\* listing; the invocation that queues a next page had a next cursor and runs
\* no finish handler
C29_FinishRunsOnceAfterLastPage ==
    [][\A w \in DOMAIN walks :
        /\ walks'[w].finishes <= 1
        /\ finishes_now(w)
           => /\ walks[w].next_cursor = 0
              /\ walks[w].reply = "ok"
              /\ walks[w].pages = walks[w].current_page
              /\ walks[w].pages >= Len(walks[w].remote)
              /\ walks[w].seen = listed(walks[w].remote)
              /\ ~queues_next_page(w)
              /\ walks'[w].st = "returned"
        /\ queues_next_page(w)
           => /\ walks[w].next_cursor # 0
              /\ walks'[w].finishes = 0
              /\ walks'[w].st = "queued"
        /\ walks'[w].st = "finishing"
           => /\ walks[w].st = "handling"
              /\ walks[w].next_cursor = 0
              /\ walks'[w].pages = walks[w].pages + 1]_vars

\* a walk of a listing of two pages, whose second page was rate limited and
\* run again, has handled both pages and has run its finish handlers once
C29_Witness ==
    \E w \in DOMAIN walks :
        /\ Len(walks[w].remote) = 2
        /\ walks[w].st = "returned" /\ walks[w].finishes = 1
        /\ walks[w].pages = 2 /\ walks[w].current_page = 2
        /\ walks[w].retries > 0
        /\ walks[w].seen = listed(walks[w].remote)

\* the row of R with the triple of row r, if there is one
same_edge(R, r) == triple_rows(R, r.type, r.subject, r.object)

\* every edge of the type of walk w that is in the store has the `until` it
\* had before the walk
untils_kept(w) ==
    \A r \in rels, b \in walks[w].before :
        (r.type = b.type /\ r.subject = b.subject /\ r.object = b.object)
        => r.until = b.until

\* C30: the page handler of a walk of the block or mute list gives every edge
\* of the page that exists already the `updated` of the run and leaves its
\* `until` as it is, and touches no other row that exists; so at every point
\* of the reconciliation each edge from before that is still there has the
\* `until` it had
C30_ReconciliationKeepsUntil ==
    /\ [](\A w \in DOMAIN walks : walks[w].kind \in {"blocks", "mutes"} => untils_kept(w))
    /\ [][\A w \in DOMAIN walks :
            ( /\ walks[w].kind \in {"blocks", "mutes"}
              /\ walks[w].st = "handling"
              /\ walks'[w].st \notin {"handling", "raised"} )
            => \A r \in rels :
                  IF /\ r.type = walk_type(walks[w].kind)
                     /\ r.subject = walks[w].account
                     /\ r.object \in walks[w].data
                  THEN same_edge(rels', r) =
                            {[r EXCEPT !.updated = walks[w].now]}
                  ELSE r \in rels']_vars

\* a walk of the block list has run to its finish, and an edge that was
\* listed has the `updated` of the run and the `until` it had before, which
\* is still ahead
C30_Witness ==
    \E w \in DOMAIN walks :
        /\ walks[w].kind = "blocks"
        /\ walks[w].st = "returned" /\ walks[w].finishes = 1
        /\ \E r \in rels, b \in walks[w].before :
                /\ r.object = b.object /\ r.object \in listed(walks[w].remote)
                /\ b.until = UntilLate /\ r.until = UntilLate
                /\ b.updated = Before /\ r.updated = walks[w].now

\* this step ends destroy t with the remote call answered by success or by
\* ALREADY_UNDONE
undone_now(t) ==
    /\ tasks[t].kind = "destroy" /\ exactly_one(tasks[t])
    /\ tasks[t].st = "calling"
    /\ tasks'[t].st = "returned"
    /\ tasks'[t].why \in {"destroyed", "already undone"}

\* C31: a destroy(S, type, target) that ends with the remote call answered
\* by success or by ALREADY_UNDONE adds no row, changes none, and removes no
\* row but those of the triple (S, type, target)
C31_DestroyRemovesOnlyItsEdge ==
    [][\A t \in DOMAIN tasks :
        undone_now(t)
        => /\ rels' \subseteq rels
           /\ (rels \ rels') \subseteq edge_of(rels, tasks[t])]_vars

\* a destroy of the edge to the remote user named Handle[2], given by screen
\* name, was answered ALREADY_UNDONE; the only account the table holds under
\* that name is account 3, and the edge of the subject to account 3 is gone
C31_Witness ==
    \E t \in DOMAIN tasks :
        /\ tasks[t].kind = "destroy" /\ tasks[t].screen_name = Handle[2]
        /\ tasks[t].user_id = None
        /\ tasks[t].st = "returned" /\ tasks[t].why = "already undone"
        /\ accounts[2] = NoName /\ accounts[3] = Handle[2]
        /\ triple_rows(rels, tasks[t].type, subject_of(tasks[t]), 3) = {}

====
